---- MODULE Spec2Model ----
(***************************************************************************)
(* TEL verifier core of keri.vdr.eventing: the per-registry Tever, the     *)
(* multi-registry Tevery, the registry store tables they write and the     *)
(* escrow drain.  Events are drawn from a fixed catalogue built with the   *)
(* module's event constructors; the controlling issuer's KEL is a fixed    *)
(* script of anchoring events of which the verifier has seen a prefix.     *)
(***************************************************************************)
EXTENDS Integers, Sequences, FiniteSets, TLC

VARIABLES
    cfg,      \* Tevery construction: [world, regk, local, vfirst]
    kelLen,   \* number of KEL events of the issuer held in Baser (db)
    now,      \* wall clock read by coring.Dater()
    tvt,      \* reger.tvts : dgKey(pre, dig) -> event
    tel,      \* reger.tels : snKey(pre, sn)  -> dig
    anc,      \* reger.ancs : dgKey -> anchor couple (seqner, diger)
    tib,      \* reger.tibs : dgKey -> set of backer signatures
    bak,      \* reger.baks : dgKey -> backer list
    tets,     \* reger.tets : (pre, dig) -> first seen Dater
    tae,      \* reger.taes : snKey -> dig, anchorless escrow
    twe,      \* reger.twes : snKey -> dig, partially witnessed escrow
    oot,      \* reger.oots : snKey -> dig, out of order escrow
    states,   \* reger.states : regk -> registry state notice
    tevers,   \* reger.tevers : regk -> Tever
    cues,     \* Tevery.cues
    acc,      \* history: digests whose processEvent call returned normally
    pc,       \* the call in progress or the last call kept, if any
    mbx       \* the Mailboxer: fels (dest, ordinal) -> dig, msgs dig -> msg

vars == <<cfg, kelLen, now, tvt, tel, anc, tib, bak, tets, tae, twe, oot,
          states, tevers, cues, acc, pc, mbx>>

(***************************************************************************)
(* Bounds of the model.                                                    *)
(***************************************************************************)
MaxKel == 4
MaxCues == 2
MaxMsgs == 3

(***************************************************************************)
(* Identifiers and ilks.                                                   *)
(***************************************************************************)
Issuer == "I1"
NB == "NB"
VCP_LABELS == {"v", "i", "s", "t", "bt", "b", "c"}
VRT_LABELS == {"v", "i", "s", "t", "p", "bt", "b", "ba", "br"}
ISS_LABELS == {"v", "i", "s", "t", "ri", "dt"}
BIS_LABELS == {"v", "i", "s", "t", "ra", "dt"}
REV_LABELS == {"v", "i", "s", "t", "p", "dt"}
BRV_LABELS == {"v", "i", "s", "t", "ra", "p", "dt"}
TSN_LABELS == {"v", "i", "s", "t", "d", "ii", "a", "et", "bt", "b", "c", "br",
               "ba"}

Range(f) == {f[k] : k \in DOMAIN f}
NoDups(seq) == Cardinality(Range(seq)) = Len(seq)
NoSeal == [i |-> "", s |-> 0, d |-> ""]

(***************************************************************************)
(* Event constructors.  An event is its ked plus the digest of its raw     *)
(* bytes (dig); keys is the set of labels the ked carries; pfx says        *)
(* whether the prefix of an inception derives from its ked.                *)
(***************************************************************************)
Ked == [keys |-> {}, t |-> "", i |-> "", s |-> 0, p |-> "", ri |-> "",
        ra |-> NoSeal, ii |-> "", c |-> {}, bt |-> 0, b |-> <<>>,
        br |-> <<>>, ba |-> <<>>, pfx |-> TRUE, dig |-> ""]

incept(regk, pre, toad, baks, cnfg, dig) ==
    [Ked EXCEPT !.keys = {"v", "i", "ii", "s", "t", "c", "bt", "b"},
                !.t = "vcp", !.i = regk, !.ii = pre, !.s = 0, !.c = cnfg,
                !.bt = toad, !.b = baks, !.dig = dig]

rotate(regk, prior, sn, toad, cuts, adds, dig) ==
    [Ked EXCEPT !.keys = {"v", "i", "p", "s", "t", "bt", "br", "ba"},
                !.t = "vrt", !.i = regk, !.p = prior, !.s = sn,
                !.bt = toad, !.br = cuts, !.ba = adds, !.dig = dig]

issue(vcdig, regk, dig) ==
    [Ked EXCEPT !.keys = {"v", "i", "s", "t", "ri", "dt"},
                !.t = "iss", !.i = vcdig, !.s = 0, !.ri = regk, !.dig = dig]

revoke(vcdig, regk, prior, dig) ==
    [Ked EXCEPT !.keys = {"v", "i", "s", "t", "ri", "p", "dt"},
                !.t = "rev", !.i = vcdig, !.s = 1, !.ri = regk,
                !.p = prior, !.dig = dig]

backerIssue(vcdig, regk, regsn, regd, dig) ==
    [Ked EXCEPT !.keys = {"v", "i", "ii", "s", "t", "ra", "dt"},
                !.t = "bis", !.i = vcdig, !.ii = regk, !.s = 0,
                !.ra = [i |-> regk, s |-> regsn, d |-> regd], !.dig = dig]

backerRevoke(vcdig, regk, regsn, regd, prior, dig) ==
    [Ked EXCEPT !.keys = {"v", "i", "s", "t", "p", "ra", "dt"},
                !.t = "brv", !.i = vcdig, !.s = 1, !.p = prior,
                !.ra = [i |-> regk, s |-> regsn, d |-> regd], !.dig = dig]

(***************************************************************************)
(* The event catalogue.  R1 is a backerless registry with credential V1,   *)
(* R2 a backer based registry with credential V2.  The digests stand for   *)
(* the Blake3 digests of the raws.  A world is the set of events one run   *)
(* submits and the issuer's KEL of that run.                               *)
(***************************************************************************)
vcp1  == incept("R1", Issuer, 0, <<>>, {NB}, "Dvcp1")
\* a second inception that names R1; its prefix does not derive from it
vcp1x == [incept("R1", Issuer, 0, <<>>, {NB}, "Dvcp1x") EXCEPT !.pfx = FALSE]
iss1  == issue("V1", "R1", "Diss1")
iss1x == issue("V1", "R1", "Diss1x")
rev1  == revoke("V1", "R1", "Diss1", "Drev1")
\* a second revocation of V1, chained to the first, at sn 2
rev1b == [revoke("V1", "R1", "Drev1", "Drev1b") EXCEPT !.s = 2]
vrt1  == rotate("R1", "Dvcp1", 1, 0, <<>>, <<>>, "Dvrt1")
bis1  == backerIssue("V1", "R1", 0, "Dvcp1", "Dbis1")
brv1  == backerRevoke("V1", "R1", 0, "Dvcp1", "Diss1", "Dbrv1")

\* Events whose sn does not agree with their kind, and an event of a kind
\* the TEL does not have
vcp1s == [incept("R1", Issuer, 0, <<>>, {NB}, "Dvcp1s") EXCEPT !.s = 1]
iss1s == [issue("V1", "R1", "Diss1s") EXCEPT !.s = 1]
bis2s == [backerIssue("V2", "R2", 0, "Dvcp2", "Dbis2s") EXCEPT !.s = 1]
vrt1z == [rotate("R1", "Dvcp1", 1, 0, <<>>, <<>>, "Dvrt1z") EXCEPT !.s = 0]
rev1z == [revoke("V1", "R1", "Diss1", "Drev1z") EXCEPT !.s = 0]
brv2z == [backerRevoke("V2", "R2", 0, "Dvcp2", "Dbis2", "Dbrv2z")
          EXCEPT !.s = 0]
ixn1  == [Ked EXCEPT !.keys = {"v", "i", "s", "t"}, !.t = "ixn", !.i = "R1",
                     !.s = 1, !.dig = "Dixn1"]

vcp2  == incept("R2", Issuer, 2, <<"B1", "B2">>, {}, "Dvcp2")
vrt2  == rotate("R2", "Dvcp2", 1, 2, <<"B2">>, <<"B3">>, "Dvrt2")
bis2  == backerIssue("V2", "R2", 0, "Dvcp2", "Dbis2")
bis2r == backerIssue("V2", "R2", 1, "Dvrt2", "Dbis2r")
brv2  == backerRevoke("V2", "R2", 0, "Dvcp2", "Dbis2", "Dbrv2")
iss2  == issue("V2", "R2", "Diss2")
rev2b == revoke("V2", "R2", "Dbis2", "Drev2b")

\* The rotation world RT: registry R3 is incepted with the backers b0 and
\* threshold bt0 of the run and rotated once with the cuts br, adds ba and
\* threshold bt of the run (lists of at most two entries).
MaxToad == 3
RotIds == {"B1", "B2", "B4"}
RotSeqs == {<<>>} \cup {<<x>> : x \in RotIds}
                 \cup {<<x, y>> : x \in RotIds, y \in RotIds}
RotBaks == {<<>>, <<"B1", "B1">>, <<"B1", "B2", "B3">>}
vcpT == incept("R3", Issuer, cfg.bt0, cfg.b0, {}, "DvcpT")
vrtT == rotate("R3", "DvcpT", 1, cfg.bt, cfg.br, cfg.ba, "DvrtT")

Worlds == {"NB", "NM", "BK", "BR", "BM"}
EventsOf(world) ==
    CASE world = "NB" -> {vcp1, vcp1x, iss1, iss1x, rev1}
      [] world = "NM" -> {vcp1, iss1, vrt1, bis1, brv1}
      [] world = "BK" -> {vcp2, vrt2, bis2r}
      [] world = "BR" -> {vcp2, bis2, brv2}
      [] world = "BM" -> {vcp2, bis2, iss2, rev2b}
      [] world = "RT" -> {vcpT, vrtT}
      [] world = "LC" -> {vcp1, iss1, vcp2, bis2}
      [] world = "RA" -> {vcp2, vrt2, bis2, bis2r}
      [] world = "RV" -> {vcp1, iss1, rev1, rev1b}
      [] world = "ST" -> {vcp2, vrt2}
      [] world = "VA" -> {vcp1, iss1, iss1x, rev1}
      [] world = "SN" -> {vcp1, iss1, rev1, vcp1s, iss1s, bis2s, vrt1z,
                          rev1z, brv2z, ixn1}
      [] world = "LG" -> {vcp2, bis2}
      [] world = "LV" -> {vcp1, iss1}
Events == UNION {EventsOf(w) : w \in Worlds}
Creds == {"V1", "V2"}
\* The signature sets a submission may carry (each signer signs at its own
\* index of the backer list the event is checked against).
SigChoices == {{"B1"}, {"B1", "B2"}, {"B1", "B2", "B3"}}

(***************************************************************************)
(* The issuer's KEL: event n anchors one catalogue event with one seal;    *)
(* past the script the KEL events carry no seal.                           *)
(***************************************************************************)
SealOf(e) == [i |-> e.i, s |-> e.s, d |-> e.dig]
KelScript(world) ==
    CASE world = "NB" -> <<vcp1, iss1, rev1, iss1x>>
      [] world = "NM" -> <<vcp1, iss1, vrt1, bis1>>
      [] world = "BK" -> <<vcp2, vrt2, bis2r>>
      [] world = "BR" -> <<vcp2, bis2, brv2>>
      [] world = "BM" -> <<vcp2, bis2, iss2, rev2b>>
      [] world = "RT" -> <<vcpT, vrtT>>
      [] world = "LC" -> <<vcp1, vcp2, iss1, bis2>>
      [] world = "RA" -> <<vcp2, vrt2, bis2, bis2r>>
      [] world = "RV" -> <<vcp1, iss1, rev1, rev1b>>
      [] world = "ST" -> <<vcp2, vrt2>>
      [] world = "VA" -> <<iss1>>
      [] world = "SN" -> <<vcp1, iss1, rev1>>
      [] world = "LG" -> <<vcp2, bis2>>
      [] world = "LV" -> <<vcp1, iss1>>
KelDig(n) == "K" \o ToString(n)
\* The KEL of the world VA: event 1 holds the seal of iss1, event 2 the
\* seals of iss1 and rev1, event 3 one digest seal (no i, no s), event 4 no
\* seal.
KelSealsVA ==
    << <<SealOf(iss1)>>, <<SealOf(iss1), SealOf(rev1)>>,
       <<[d |-> "Diss1"]>>, <<>> >>
KelSeals(n) ==
    LET seals(kel) == IF n \in DOMAIN kel THEN <<SealOf(kel[n])>> ELSE <<>>
        listed(kel) == IF n \in DOMAIN kel THEN kel[n] ELSE <<>>
    IN IF cfg.world = "VA" THEN listed(KelSealsVA)
       ELSE seals(KelScript(cfg.world))
\* db.getKeLast(snKey(pre, sn)) then db.getEvt: the KEL event at sn, if held
KelHas(pre, n) == pre = Issuer /\ n \in 1..kelLen
\* The anchor couples a submission of e may carry: the couple of the KEL
\* event that seals e (of KEL event 1 when none does), or that sequence
\* number with a digest no KEL event has (for an inception).
AnchorSn(e) ==
    LET first(kel) == IF \E n \in DOMAIN kel : kel[n] = e
                      THEN CHOOSE n \in DOMAIN kel : kel[n] = e
                      ELSE 1
    IN first(KelScript(cfg.world))
AnchorChoices(e) ==
    LET couples(sn) ==
            {[sn |-> sn, dig |-> KelDig(sn)]} \cup
            (IF e.t = "vcp" THEN {[sn |-> sn, dig |-> "Kx"]} ELSE {})
    IN couples(AnchorSn(e))

(***************************************************************************)
(* The key value store (keri.vdr.viring.Registry, keri.db).  put writes    *)
(* only when the key is free and says whether it wrote; pin overwrites.    *)
(***************************************************************************)
NoTbl == [k \in {} |-> ""]
nsKey(regk, vcpre) == regk \o ":" \o vcpre
Has(tbl, key) == key \in DOMAIN tbl
PutVal(tbl, key, val) ==
    [k \in DOMAIN tbl \cup {key} |-> IF k \in DOMAIN tbl THEN tbl[k] ELSE val]
PinVal(tbl, key, val) ==
    [k \in DOMAIN tbl \cup {key} |-> IF k = key THEN val ELSE tbl[k]]
DelVal(tbl, key) == [k \in DOMAIN tbl \ {key} |-> tbl[k]]
\* putTibs adds to the duplicate-sorted values at key
PutVals(tbl, key, vals) ==
    [k \in DOMAIN tbl \cup {key} |->
        IF k = key THEN (IF k \in DOMAIN tbl THEN tbl[k] ELSE {}) \cup vals
        ELSE tbl[k]]
\* reger.cntTels(pre): the number of tel entries of the log pre
cntTels(st, pre) == Cardinality({k \in DOMAIN st.tel : k[1] = pre})

\* Variant of verifySigs that keeps every offered signature (the partial
\* witnessing property C14 must fail with it)
verifySigsAll(bigers, baks) == bigers

\* Variant of validateSN that passes every sn (the agreement of sn and
\* kind, C28, must fail with it)
validateSNAny(sn, inceptive) == TRUE

\* core.eventing.validateSN: sn is 0 exactly for an inceptive event
validateSN(sn, inceptive) == IF inceptive THEN sn = 0 ELSE sn >= 1
\* core.eventing.verifySigs: the signatures that verify against the
\* verfer at their index, one per index
verifySigs(bigers, baks) == bigers \cap Range(baks)

(***************************************************************************)
(* Tever.  st is the record of the tables, the Tever cache and the cue     *)
(* queue; an operation returns the store it leaves and how it ended (out:  *)
(* "ok" or the exception raised).                                          *)
(***************************************************************************)
QueryCue(pre, sn) == [kin |-> "query", pre |-> pre, sn |-> sn]

\* Variant of verifyAnchor that accepts every couple (the anchoring
\* property C4 must fail with it)
verifyAnchorAny(pre, e, a) == TRUE

\* Tever.verifyAnchor: "True" or "False" as returned, "KeyError" where
\* the lookup of i, s or d in the seal raises
verifyAnchorOut(pre, e, a) ==
    LET sealed(seals) ==
            IF Len(seals) # 1 THEN "False"
            ELSE IF ~({"i", "s", "d"} \subseteq DOMAIN seals[1])
            THEN "KeyError"
            ELSE IF seals[1].i = e.i /\ seals[1].s = e.s /\ e.dig = seals[1].d
            THEN "True"
            ELSE "False"
    IN IF ~KelHas(pre, a.sn) THEN "False"
       ELSE IF KelDig(a.sn) # a.dig THEN "False"
       ELSE sealed(KelSeals(a.sn))

\* Tever.verifyAnchor as the callers test it; outside the world VA every
\* seal of the KEL has i, s and d, and the call returns
verifyAnchor(pre, e, a) == verifyAnchorOut(pre, e, a) = "True"

\* Variant of logEvent that writes the tel entry one sn further (the
\* no-gap property C36 must fail with it)
logEventNextSn(st, pre, sn, e, a, bigers, baks) ==
    LET key == <<pre, e.dig>> IN
    [st EXCEPT !.anc = PutVal(@, key, a),
               !.tib = IF bigers # {} THEN PutVals(@, key, bigers) ELSE @,
               !.bak = IF baks # <<>> THEN PinVal(@, key, baks) ELSE @,
               !.tets = PinVal(@, key, now),
               !.tvt = PutVal(@, key, e),
               !.tel = PutVal(@, <<pre, sn + 1>>, e.dig)]

\* Tever.logEvent
logEvent(st, pre, sn, e, a, bigers, baks) ==
    LET key == <<pre, e.dig>> IN
    [st EXCEPT !.anc = PutVal(@, key, a),
               !.tib = IF bigers # {} THEN PutVals(@, key, bigers) ELSE @,
               !.bak = IF baks # <<>> THEN PinVal(@, key, baks) ELSE @,
               !.tets = PinVal(@, key, now),
               !.tvt = PutVal(@, key, e),
               !.tel = PutVal(@, <<pre, sn>>, e.dig)]

\* Tever.escrowPWEvent
escrowPWEvent(st, e, a, bigers) ==
    LET key == <<e.i, e.dig>> IN
    [st EXCEPT !.anc = PutVal(@, key, a),
               !.tib = PutVals(@, key, bigers),
               !.tvt = PutVal(@, key, e),
               !.twe = PutVal(@, <<e.i, e.s>>, e.dig)]

\* Tever.escrowALEvent: ok is what putTae returns
escrowALEvent(st, e, a, bigers, baks) ==
    LET key == <<e.i, e.dig>> IN
    [st |-> [st EXCEPT
                !.anc = PutVal(@, key, a),
                !.tib = IF bigers # {} THEN PutVals(@, key, bigers) ELSE @,
                !.bak = IF baks # <<>> THEN PinVal(@, key, baks) ELSE @,
                !.tvt = PutVal(@, key, e),
                !.tae = PutVal(@, <<e.i, e.s>>, e.dig)],
     ok |-> ~Has(st.tae, <<e.i, e.s>>)]

\* Variant of anchorFailure that cues whether or not the escrow was written
\* (the cue property C10 must fail with it)
anchorFailureCueAlways(st, pre, e, a, bigers, baks) ==
    [st |-> [escrowALEvent(st, e, a, bigers, baks).st
                EXCEPT !.cues = Append(@, QueryCue(pre, a.sn))],
     out |-> "MissingAnchorError", bigers |-> bigers]

\* The anchor failure of issue, revoke and valAnchorBigs: escrow, cue a
\* query when the escrow was written, raise MissingAnchorError
anchorFailure(st, pre, e, a, bigers, baks) ==
    LET raise(r) ==
            [st |-> IF r.ok
                    THEN [r.st EXCEPT !.cues = Append(@, QueryCue(pre, a.sn))]
                    ELSE r.st,
             out |-> "MissingAnchorError", bigers |-> bigers]
    IN raise(escrowALEvent(st, e, a, bigers, baks))

\* Tever.valAnchorBigs; tv carries self.pre, self.regk ("" for None), self.local
valAnchorBigs(st, tv, e, a, sigs, toad, baks) ==
    LET val(bigers) ==
            IF ~verifyAnchor(tv.pre, e, a)
            THEN anchorFailure(st, tv.pre, e, a, bigers, baks)
            ELSE IF \/ (baks # <<>> /\ tv.regk = "")
                    \/ (baks # <<>> /\ ~tv.local /\ tv.regk # ""
                                    /\ tv.regk \notin Range(baks))
            THEN IF toad < 0 \/ Len(baks) < toad
                 THEN [st |-> st, out |-> "ValidationError",
                       bigers |-> bigers]
                 ELSE IF Cardinality(bigers) < toad
                 THEN [st |-> escrowPWEvent(st, e, a, bigers),
                       out |-> "MissingWitnessSignatureError",
                       bigers |-> bigers]
                 ELSE [st |-> st, out |-> "ok", bigers |-> bigers]
            ELSE [st |-> st, out |-> "ok", bigers |-> bigers]
    IN val(verifySigs(sigs, baks))

\* Variant of getBackerState that answers with the Tever's current toad
\* and backers (the ra property C21 must fail with it)
getBackerStateTip(st, tv, e) ==
    [out |-> "ok", toad |-> tv.toad, baks |-> tv.baks]

\* Tever.getBackerState
getBackerState(st, tv, e) ==
    LET get(dgkey) ==
            IF e.ra.i # tv.regk \/ ~Has(st.tvt, dgkey)
            THEN [out |-> "ValidationError", toad |-> 0, baks |-> <<>>]
            ELSE IF "bt" \notin st.tvt[dgkey].keys
            THEN [out |-> "KeyError", toad |-> 0, baks |-> <<>>]
            ELSE [out |-> "ok", toad |-> st.tvt[dgkey].bt,
                  baks |-> IF Has(st.bak, dgkey) THEN st.bak[dgkey]
                           ELSE <<>>]
    IN get(<<e.ra.i, e.ra.d>>)

\* Variant of newBaks that puts the adds in front (the rotation property
\* C16 must fail with it)
newBaksAddsFirst(baks, cuts, adds) ==
    LET kept(x) == x \notin Range(cuts)
        added(x) == x \notin Range(baks) \ Range(cuts)
    IN SelectSeq(adds, added) \o SelectSeq(baks, kept)

\* oset(seq): the members of seq in the order of their first occurrence
RECURSIVE oset(_)
oset(seq) ==
    IF seq = <<>> THEN <<>>
    ELSE LET last(h, x) == IF x \in Range(h) THEN h ELSE Append(h, x)
         IN last(oset(SubSeq(seq, 1, Len(seq) - 1)), seq[Len(seq)])

\* Tever.rotate: the checks of a vrt against the Tever and the new backers,
\* (oset(baks) - oset(cuts)) | oset(adds)
newBaks(baks, cuts, adds) ==
    LET kept(x) == x \notin Range(cuts)
        join(w, a) == LET added(x) == x \notin Range(w)
                      IN w \o SelectSeq(a, added)
    IN join(SelectSeq(oset(baks), kept), oset(adds))
\* Variant of toadOk that accepts every threshold (the Tever invariant C17
\* must fail with it)
toadOkAny(toad, baks) == TRUE
toadOk(toad, baks) ==
    IF baks # <<>> THEN toad >= 1 /\ toad <= Len(baks) ELSE toad = 0
TeverRotate(tv, e, sn) ==
    LET rot(baks) ==
            [ok |-> /\ e.i = tv.regk
                    /\ sn = tv.sn + 1
                    /\ tv.serder.dig = e.p
                    /\ NoDups(e.br)
                    /\ Range(e.br) \subseteq Range(tv.baks)
                    /\ NoDups(e.ba)
                    /\ Range(e.br) \cap Range(e.ba) = {}
                    /\ Range(tv.baks) \cap Range(e.ba) = {}
                    /\ Len(baks) = Len(tv.baks) - Len(e.br) + Len(e.ba)
                    /\ toadOk(e.bt, baks),
             toad |-> e.bt, baks |-> baks, cuts |-> e.br, adds |-> e.ba]
    IN rot(newBaks(tv.baks, e.br, e.ba))

\* core.eventing.ample(n): the default threshold for n backers
ample(n) ==
    LET max1(x) == IF x > 1 THEN x ELSE 1
        min3(x, y, z) == IF x <= y /\ x <= z THEN x
                         ELSE IF y <= z THEN y ELSE z
        m(f1, f2) == min3(n, (n + f1 + 2) \div 2, (n + f2 + 2) \div 2)
    IN m(max1((n - 1) \div 3), max1((n + 1) \div 3))

\* Variant of rotateValid without the bounds of the threshold (the
\* agreement of constructor and verifier, C29, must fail with it)
rotateValidAnyToad(sn, toad, baks, cuts, adds) ==
    LET made(nb) ==
            [ok |-> /\ sn >= 1
                    /\ NoDups(baks)
                    /\ NoDups(cuts)
                    /\ Range(cuts) \subseteq Range(baks)
                    /\ NoDups(adds)
                    /\ Range(cuts) \cap Range(adds) = {}
                    /\ Range(baks) \cap Range(adds) = {}
                    /\ Len(nb) = Len(baks) - Len(cuts) + Len(adds),
             toad |-> IF toad # <<>> THEN toad[1]
                      ELSE IF nb = <<>> THEN 0 ELSE ample(Len(nb)),
             baks |-> nb]
    IN made(newBaks(baks, cuts, adds))

\* rotate (the constructor), from the check of sn to the check of toad:
\* whether it returns an event, the bt of the event and the new backer
\* list it computed.  toad is <<>> where the argument is left out.
rotateValid(sn, toad, baks, cuts, adds) ==
    LET bt(nb) == IF toad # <<>> THEN toad[1]
                  ELSE IF nb = <<>> THEN 0 ELSE ample(Len(nb))
        made(nb) ==
            [ok |-> /\ sn >= 1
                    /\ NoDups(baks)
                    /\ NoDups(cuts)
                    /\ Range(cuts) \subseteq Range(baks)
                    /\ NoDups(adds)
                    /\ Range(cuts) \cap Range(adds) = {}
                    /\ Range(baks) \cap Range(adds) = {}
                    /\ Len(nb) = Len(baks) - Len(cuts) + Len(adds)
                    /\ toadOk(bt(nb), nb),
             toad |-> bt(nb), baks |-> nb]
    IN made(newBaks(baks, cuts, adds))

\* state: the registry state notice constructor; ok is false where it raises
state(pre, dig, sn, ri, eilk, br, ba, a, toad, wits, cnfg) ==
    [ok |-> /\ sn >= 0
            /\ eilk \in {"vcp", "vrt"}
            /\ NoDups(wits)
            /\ toadOk(toad, wits)
            /\ NoDups(br)
            /\ NoDups(ba),
     ksn |-> [keys |-> {"v", "i", "s", "d", "ii", "dt", "et", "a", "bt", "br",
                        "ba", "b", "c"},
              i |-> ri, s |-> sn, d |-> dig, ii |-> pre, dt |-> now,
              et |-> eilk, a |-> a, bt |-> toad, br |-> br, ba |-> ba,
              b |-> wits, c |-> cnfg]]

\* Tever.state: the notice of the Tever tv, its anchor read from anc
TeverState(st, tv) ==
    LET notice(couple) ==
            state(tv.pre, tv.serder.dig, tv.sn, tv.regk, tv.ilk, tv.cuts,
                  tv.adds, [s |-> couple.sn, d |-> couple.dig], tv.toad,
                  tv.baks, IF tv.noBackers THEN <<NB>> ELSE <<>>)
    IN notice(st.anc[<<tv.regk, tv.serder.dig>>])

\* Tever.reload: the Tever built from the notice ksn by Tever(state=ksn),
\* or the error raised; ksn.pre is the i of the notice
reload(st, ksn, clocal) ==
    LET loaded(regk) ==
            IF ~Has(st.tvt, <<regk, ksn.d>>)
            THEN [out |-> "MissingEntryError", tever |-> <<>>]
            ELSE [out |-> "ok",
                  tever |-> [pre |-> ksn.i, regk |-> regk, local |-> clocal,
                             sn |-> ksn.s, serder |-> st.tvt[<<regk, ksn.d>>],
                             ilk |-> ksn.et, toad |-> ksn.bt, baks |-> ksn.b,
                             cuts |-> ksn.br, adds |-> ksn.ba,
                             noBackers |-> NB \in Range(ksn.c)]]
    IN
    IF ~(TSN_LABELS \subseteq ksn.keys)
    THEN [out |-> "ValidationError", tever |-> <<>>]
    ELSE IF "ri" \notin ksn.keys
    THEN [out |-> "KeyError", tever |-> <<>>]
    ELSE loaded(ksn.ri)

\* Variant of pinState that leaves the stored notice as it is (the snapshot
\* property C35 must fail with it)
pinStateSkip(st, tv) == [st |-> st, out |-> "ok"]

\* self.reger.states.pin(keys=self.regk, val=self.state())
pinState(st, tv) ==
    LET pin(n) ==
            IF n.ok
            THEN [st |-> [st EXCEPT !.states = PinVal(@, tv.regk, n.ksn)],
                  out |-> "ok"]
            ELSE [st |-> st, out |-> "ValueError"]
    IN pin(TeverState(st, tv))

\* Variant of Tever.issue that assigns sn, serder and ilk of the Tever as
\* the vrt branch of Tever.update does (the frame property C34 must fail
\* with it)
TeverIssueAsUpdate(st, tv, e, a, sn, sigs) ==
    LET vci == nsKey(tv.regk, e.i)
        set(s2) ==
            [s2 EXCEPT !.tevers = PinVal(@, tv.regk,
                           [tv EXCEPT !.sn = sn, !.serder = e, !.ilk = e.t])]
        log(v) ==
            IF v.out # "ok" THEN [st |-> v.st, out |-> v.out]
            ELSE [st |-> set(logEvent(st, vci, sn, e, a, v.bigers, <<>>)),
                  out |-> "ok"]
        val(bs) ==
            IF bs.out # "ok" THEN [st |-> st, out |-> bs.out]
            ELSE log(valAnchorBigs(st, tv, e, a, sigs, bs.toad, bs.baks))
    IN
    IF ~(ISS_LABELS \ {"ri"} \subseteq e.keys)
    THEN [st |-> st, out |-> "ValidationError"]
    ELSE IF e.t = "iss"
    THEN IF tv.noBackers = FALSE \/ e.ri # tv.regk
         THEN [st |-> st, out |-> "ValidationError"]
         ELSE IF ~verifyAnchor(tv.pre, e, a)
         THEN [st |-> anchorFailure(st, tv.pre, e, a, {}, <<>>).st,
               out |-> "MissingAnchorError"]
         ELSE [st |-> set(logEvent(st, vci, sn, e, a, {}, <<>>)),
               out |-> "ok"]
    ELSE IF tv.noBackers = TRUE THEN [st |-> st, out |-> "ValidationError"]
    ELSE val(getBackerState(st, tv, e))

\* Tever.issue
TeverIssue(st, tv, e, a, sn, sigs) ==
    LET vci == nsKey(tv.regk, e.i)
        labels == IF e.t = "iss" THEN ISS_LABELS ELSE BIS_LABELS
        log(v) ==
            IF v.out # "ok" THEN [st |-> v.st, out |-> v.out]
            ELSE [st |-> logEvent(st, vci, sn, e, a, v.bigers, <<>>),
                  out |-> "ok"]
        val(bs) ==
            IF bs.out # "ok" THEN [st |-> st, out |-> bs.out]
            ELSE log(valAnchorBigs(st, tv, e, a, sigs, bs.toad, bs.baks))
    IN
    IF ~(labels \subseteq e.keys) THEN [st |-> st, out |-> "ValidationError"]
    ELSE IF e.t = "iss"
    THEN IF tv.noBackers = FALSE \/ e.ri # tv.regk
         THEN [st |-> st, out |-> "ValidationError"]
         ELSE IF ~verifyAnchor(tv.pre, e, a)
         THEN [st |-> anchorFailure(st, tv.pre, e, a, {}, <<>>).st,
               out |-> "MissingAnchorError"]
         ELSE [st |-> logEvent(st, vci, sn, e, a, {}, <<>>), out |-> "ok"]
    ELSE IF e.t = "bis"
    THEN IF tv.noBackers = TRUE THEN [st |-> st, out |-> "ValidationError"]
         ELSE val(getBackerState(st, tv, e))
    ELSE [st |-> st, out |-> "ValidationError"]

\* Variant of revokePrior that leaves out the digest comparison (the hash
\* chain property C1 must fail with it)
revokePriorAnyDigest(st, vci, sn, e) ==
    IF ~Has(st.tel, <<vci, sn - 1>>) THEN "TypeError"
    ELSE IF ~Has(st.tvt, <<vci, st.tel[<<vci, sn - 1>>]>>)
    THEN "ValidationError"
    ELSE "ok"

\* Tever.revoke, the comparison with the prior event of the credential:
\* the tel entry at sn - 1, its event in tvt, its digest against p
revokePrior(st, vci, sn, e) ==
    IF ~Has(st.tel, <<vci, sn - 1>>) THEN "TypeError"
    ELSE IF ~Has(st.tvt, <<vci, st.tel[<<vci, sn - 1>>]>>)
    THEN "ValidationError"
    ELSE IF st.tvt[<<vci, st.tel[<<vci, sn - 1>>]>>].dig # e.p
    THEN "ValidationError"
    ELSE "ok"

\* Tever.revoke
TeverRevoke(st, tv, e, a, sn, sigs) ==
    LET vci == nsKey(tv.regk, e.i)
        labels == IF e.t = "rev" THEN REV_LABELS ELSE BRV_LABELS
        log(v) ==
            IF v.out # "ok" THEN [st |-> v.st, out |-> v.out]
            ELSE [st |-> logEvent(st, vci, sn, e, a, v.bigers, <<>>),
                  out |-> "ok"]
        val(bs) ==
            IF bs.out # "ok" THEN [st |-> st, out |-> bs.out]
            ELSE log(valAnchorBigs(st, tv, e, a, sigs, bs.toad, bs.baks))
        rest(prior) ==
            IF prior # "ok" THEN [st |-> st, out |-> prior]
            ELSE IF e.t = "rev"
            THEN IF tv.noBackers = FALSE
                 THEN [st |-> st, out |-> "ValidationError"]
                 ELSE IF ~verifyAnchor(tv.pre, e, a)
                 THEN [st |-> anchorFailure(st, tv.pre, e, a, {}, <<>>).st,
                       out |-> "MissingAnchorError"]
                 ELSE [st |-> logEvent(st, vci, sn, e, a, {}, <<>>),
                       out |-> "ok"]
            ELSE IF e.t = "brv"
            THEN IF tv.noBackers = TRUE
                 THEN [st |-> st, out |-> "ValidationError"]
                 ELSE val(getBackerState(st, tv, e))
            ELSE [st |-> st, out |-> "ValidationError"]
    IN
    IF ~(labels \subseteq e.keys) THEN [st |-> st, out |-> "ValidationError"]
    ELSE rest(revokePrior(st, vci, sn, e))

\* Tever.update
TeverUpdate(st, tv, e, a, sigs) ==
    LET set(r) == [tv EXCEPT !.sn = e.s, !.serder = e, !.ilk = e.t,
                             !.toad = r.toad, !.baks = r.baks,
                             !.cuts = r.cuts, !.adds = r.adds]
        cached(s2, tv2) ==
            pinState([s2 EXCEPT !.tevers = PinVal(@, tv.regk, tv2)], tv2)
        log(r, v) ==
            IF v.out # "ok" THEN [st |-> v.st, out |-> v.out]
            ELSE cached(logEvent(st, tv.regk, e.s, e, a, v.bigers, r.baks),
                        set(r))
        rot(r) ==
            IF tv.noBackers = TRUE \/ ~r.ok
            THEN [st |-> st, out |-> "ValidationError"]
            ELSE log(r, valAnchorBigs(st, tv, e, a, sigs, r.toad, r.baks))
    IN
    IF ~validateSN(e.s, e.t \in {"iss", "bis"})
    THEN [st |-> st, out |-> "ValidationError"]
    ELSE IF e.t = "vrt" THEN rot(TeverRotate(tv, e, e.s))
    ELSE IF e.t \in {"iss", "bis"} THEN TeverIssue(st, tv, e, a, e.s, sigs)
    ELSE IF e.t \in {"rev", "brv"} THEN TeverRevoke(st, tv, e, a, e.s, sigs)
    ELSE [st |-> st, out |-> "ValidationError"]

\* Variant of config that ignores the trait (the mode property C5 must fail
\* with it)
configNoTrait(e) == FALSE

\* Tever.config: the NoBackers trait of the inception (the class default
\* and the override are False and None)
config(e) == NB \in e.c

\* Tever.__init__ from an inception serder (with Tever.incept and
\* Tever.config); cregk and clocal are the Tevery's regk and local
TeverInit(st, e, a, sigs, cregk, clocal) ==
    LET made(tv) ==
            LET pinned(r) == [st |-> r.st, out |-> r.out, tever |-> tv]
                log(v) ==
                    IF v.out # "ok"
                    THEN [st |-> v.st, out |-> v.out, tever |-> tv]
                    ELSE pinned(pinState(logEvent(st, e.i, 0, e, a,
                                                  v.bigers, e.b), tv))
            IN
            IF \/ e.t # "vcp"
               \/ ~(VCP_LABELS \subseteq e.keys)
               \/ ~e.pfx
               \/ ~validateSN(e.s, TRUE)
               \/ ~NoDups(e.b)
               \/ ~toadOk(e.bt, e.b)
            THEN [st |-> st, out |-> "ValidationError", tever |-> tv]
            ELSE log(valAnchorBigs(st, [tv EXCEPT !.regk = cregk], e, a,
                                   sigs, e.bt, e.b))
    IN made([pre |-> e.ii, regk |-> e.i, local |-> clocal, sn |-> e.s,
             serder |-> e, ilk |-> e.t, toad |-> e.bt, baks |-> e.b,
             cuts |-> <<>>, adds |-> <<>>, noBackers |-> config(e)])

(***************************************************************************)
(* Tevery.                                                                 *)
(***************************************************************************)
\* Tevery.registryKey ("" where it raises)
registryKey(e) ==
    IF e.t \in {"vcp", "vrt"} THEN e.i
    ELSE IF e.t \in {"iss", "rev"} THEN e.ri
    ELSE IF e.t \in {"bis", "brv"} THEN e.ra.i
    ELSE ""

\* Variants of escrowOOEvent: one that also stamps the event first seen
\* (C6 must fail with it), one that keys the escrow by the registry (C8
\* must fail with it)
escrowOOEventStamped(st, e, a) ==
    LET key == <<e.i, e.dig>> IN
    [st EXCEPT !.tvt = PutVal(@, key, e),
               !.anc = PutVal(@, key, a),
               !.tets = PinVal(@, key, now),
               !.oot = PutVal(@, <<e.i, e.s>>, e.dig)]
escrowOOEventByRegistry(st, e, a) ==
    LET key == <<e.i, e.dig>> IN
    [st EXCEPT !.tvt = PutVal(@, key, e),
               !.anc = PutVal(@, key, a),
               !.oot = PutVal(@, <<registryKey(e), e.s>>, e.dig)]

\* Tevery.escrowOOEvent
escrowOOEvent(st, e, a) ==
    LET key == <<e.i, e.dig>> IN
    [st EXCEPT !.tvt = PutVal(@, key, e),
               !.anc = PutVal(@, key, a),
               !.oot = PutVal(@, <<e.i, e.s>>, e.dig)]

\* Tever.vcSn: -1 stands for None
vcSn(st, tv, vcpre) == cntTels(st, nsKey(tv.regk, vcpre)) - 1

\* reger.getTelItemPreIter(pre): the digests of the log pre in key order
telDigs(st, pre) ==
    LET sns == {k[2] : k \in {m \in DOMAIN st.tel : m[1] = pre}}
        nth(j) == CHOOSE n \in sns : Cardinality({m \in sns : m < n}) = j - 1
    IN [j \in 1..Cardinality(sns) |-> st.tel[<<pre, nth(j)>>]]

\* vcstate: the credential state notice constructor; ok is false where it
\* raises
vcstate(vcpre, dig, sn, ri, eilk, a) ==
    [ok |-> sn >= 0 /\ eilk \in {"iss", "bis", "rev", "brv"},
     ksn |-> [i |-> vcpre, s |-> sn, d |-> dig, ri |-> ri, a |-> a,
              dt |-> now, et |-> eilk]]

\* Variant of vcState that reports the issuance kind whatever the log
\* holds (the credential state property C23 must fail with it)
vcStateIssued(st, tv, vcpre) ==
    LET made(digs, vci) ==
            IF Len(digs) = 0 THEN [found |-> FALSE, ok |-> TRUE, ksn |-> <<>>]
            ELSE [found |-> TRUE, ok |-> TRUE,
                  ksn |-> vcstate(vcpre, digs[Len(digs)], Len(digs) - 1,
                                  tv.regk,
                                  IF tv.noBackers THEN "iss" ELSE "bis",
                                  st.anc[<<vci, digs[Len(digs)]>>]).ksn]
    IN made(telDigs(st, nsKey(tv.regk, vcpre)), nsKey(tv.regk, vcpre))

\* Tever.vcState: found is false where it returns None
vcState(st, tv, vcpre) ==
    LET notice(n) == [found |-> TRUE, ok |-> n.ok, ksn |-> n.ksn]
        made(digs, vci) ==
            IF Len(digs) = 0 THEN [found |-> FALSE, ok |-> TRUE, ksn |-> <<>>]
            ELSE notice(vcstate(
                     vcpre, digs[Len(digs)], Len(digs) - 1, tv.regk,
                     IF tv.noBackers
                     THEN (IF Len(digs) = 1 THEN "iss" ELSE "rev")
                     ELSE (IF Len(digs) = 1 THEN "bis" ELSE "brv"),
                     [s |-> st.anc[<<vci, digs[Len(digs)]>>].sn,
                      d |-> st.anc[<<vci, digs[Len(digs)]>>].dig]))
    IN made(telDigs(st, nsKey(tv.regk, vcpre)), nsKey(tv.regk, vcpre))

\* Variants of expectedSn: one that never reads the credential's log (the
\* uniqueness property C2 must fail with it), one that applies the rule of
\* vrt to every ilk (the gating property C3 must fail with it)
expectedSnNoLookup(st, tv, e) == IF e.t = "vrt" THEN tv.sn + 1 ELSE 0
expectedSnOfRegistry(st, tv, e) == tv.sn + 1

\* The expected sequence number computed by Tevery.processEvent
expectedSn(st, tv, e) ==
    IF e.t = "vrt" THEN tv.sn + 1
    ELSE IF vcSn(st, tv, e.i) = -1 THEN 0 ELSE vcSn(st, tv, e.i) + 1

\* Variant of localityGate that lets every event through (the locality
\* property C20 must fail with it)
localityGateOpen(regk) == FALSE

\* Tevery.processEvent, the locality rule: with an own regk a local Tevery
\* raises on an event of another registry, a non-local one on an event of
\* its own
localityGate(regk) ==
    cfg.regk # "" /\ (IF cfg.local THEN cfg.regk # regk ELSE cfg.regk = regk)

\* Variant of processEvent that incepts whatever the cache holds and
\* takes no other event (the duplicate inception property C19 must fail
\* with it)
processEventReincept(st, e, a, sigs) ==
    LET first(t) ==
            IF t.out = "ok"
            THEN [st |-> [t.st EXCEPT !.tevers = PinVal(@, e.i, t.tever)],
                  out |-> "ok"]
            ELSE [st |-> t.st, out |-> t.out]
    IN
    IF e.t = "vcp"
    THEN first(TeverInit(st, e, a, sigs, cfg.regk, cfg.local))
    ELSE [st |-> st, out |-> "ValidationError"]

\* Tevery.processEvent
processEvent(st, e, a, sigs) ==
    LET first(regk, t) ==
            IF t.out = "ok"
            THEN [st |-> [t.st EXCEPT !.tevers = PinVal(@, regk, t.tever)],
                  out |-> "ok"]
            ELSE [st |-> t.st, out |-> t.out]
        next(regk, sno) ==
            IF e.s > sno
            THEN [st |-> escrowOOEvent(st, e, a), out |-> "OutOfOrderError"]
            ELSE IF e.s = sno
            THEN TeverUpdate(st, st.tevers[regk], e, a, sigs)
            ELSE [st |-> st, out |-> "LikelyDuplicitousError"]
        proc(regk) ==
            IF e.i = "" \/ regk = ""
            THEN [st |-> st, out |-> "ValidationError"]
            ELSE IF ~validateSN(e.s, e.t \in {"vcp", "iss", "bis"})
            THEN [st |-> st, out |-> "ValidationError"]
            ELSE IF localityGate(regk)
            THEN [st |-> st, out |-> "ValueError"]
            ELSE IF ~Has(st.tevers, regk)
            THEN IF e.t = "vcp"
                 THEN first(regk, TeverInit(st, e, a, sigs, cfg.regk,
                                            cfg.local))
                 ELSE [st |-> escrowOOEvent(st, e, a),
                       out |-> "OutOfOrderError"]
            ELSE IF e.t = "vcp"
            THEN [st |-> st, out |-> "LikelyDuplicitousError"]
            ELSE next(regk, expectedSn(st, st.tevers[regk], e))
    IN proc(registryKey(e))

\* A processEvent call with the history of accepted digests kept
call(st, e, a, sigs) ==
    LET note(r) ==
            [st |-> IF r.out = "ok" THEN [r.st EXCEPT !.acc = @ \cup {e.dig}]
                    ELSE r.st,
             out |-> r.out]
    IN note(processEvent(st, e, a, sigs))

\* The order of the keys of an escrow table: by prefix bytes, then by sn
PreRank(p) ==
    CASE p = "R1" -> 1 [] p = "R2" -> 2 [] p = "R3" -> 3
      [] p = "V1" -> 4 [] p = "V2" -> 5 [] OTHER -> 0
preLess(p, q) ==
    IF (p \in Creds) = (q \in Creds) THEN PreRank(p) < PreRank(q)
    ELSE (p \in Creds) = cfg.vfirst
keyLess(k, m) == IF k[1] # m[1] THEN preLess(k[1], m[1]) ELSE k[2] < m[2]
firstKey(keys) == CHOOSE k \in keys : \A m \in keys \ {k} : keyLess(k, m)

\* Variant of drainOne that unescrows on every outcome (the drain property
\* C11 must fail with it)
drainOneAlwaysDel(st, snap, key) ==
    LET done(r) == [r.st EXCEPT !.tae = DelVal(@, key)]
        retry(dgkey) ==
            IF ~Has(st.tvt, dgkey) \/ ~Has(st.anc, dgkey)
            THEN [st EXCEPT !.tae = DelVal(@, key)]
            ELSE done(call(st, st.tvt[dgkey], st.anc[dgkey],
                           IF Has(st.tib, dgkey) THEN st.tib[dgkey] ELSE {}))
    IN retry(<<key[1], snap[key]>>)

\* One pass of the loop of Tevery.processEscrowAnchorless, at entry key of
\* the tae items snap the iterator reads
drainOne(st, snap, key) ==
    LET done(r) ==
            IF r.out = "MissingAnchorError" THEN r.st
            ELSE [r.st EXCEPT !.tae = DelVal(@, key)]
        retry(dgkey) ==
            IF ~Has(st.tvt, dgkey) \/ ~Has(st.anc, dgkey)
            THEN [st EXCEPT !.tae = DelVal(@, key)]
            ELSE done(call(st, st.tvt[dgkey], st.anc[dgkey],
                           IF Has(st.tib, dgkey) THEN st.tib[dgkey] ELSE {}))
    IN retry(<<key[1], snap[key]>>)

RECURSIVE drainLoop(_, _, _)
drainLoop(st, snap, todo) ==
    LET at(key) == drainLoop(drainOne(st, snap, key), snap, todo \ {key})
    IN IF todo = {} THEN st ELSE at(firstKey(todo))

\* Tevery.processEscrowAnchorless
\* Variant of processEscrowAnchorless that stops after the first entry (the
\* idempotence property C13 must fail with it)
processEscrowAnchorlessFirst(st) ==
    IF DOMAIN st.tae = {} THEN st
    ELSE drainOne(st, st.tae, firstKey(DOMAIN st.tae))
processEscrowAnchorless(st) == drainLoop(st, st.tae, DOMAIN st.tae)

\* Tevery.processEscrowOutOfOrders: the loop reads the oot items and
\* reprocesses none
processEscrowOutOfOrders(st) == st

\* Tevery.processEscrows
\* Variant of processEscrows without the anchorless drain (the recovery
\* property C12 must fail with it)
processEscrowsOotOnly(st) == processEscrowOutOfOrders(st)
processEscrows(st) == processEscrowOutOfOrders(processEscrowAnchorless(st))

(***************************************************************************)
(* The state machine.                                                      *)
(***************************************************************************)
\* reger.clonePreIter(pre, fn = 0): the first-seen events of the log pre in
\* sn order
clonePreIter(st, pre) ==
    LET msgs(digs) == [j \in DOMAIN digs |-> st.tvt[<<pre, digs[j]>>]]
    IN msgs(telDigs(st, pre))

ReplayCue(dest, msgs) == [kin |-> "replay", dest |-> dest, msgs |-> msgs]

\* Variant of processQuery that cues a receipt (the cue kind property C25
\* must fail with it)
processQueryReceipt(st, route, ri, vcpre, source) ==
    [st |-> [st EXCEPT !.cues = Append(@, [kin |-> "receipt"])], out |-> "ok"]

\* Variant of processQuery that replays the credential log first (the
\* replay order property C26 must fail with it)
processQueryCredFirst(st, route, ri, vcpre, source) ==
    LET cued(msgs) ==
            IF msgs # <<>>
            THEN [st |-> [st EXCEPT !.cues = Append(@, ReplayCue(source, msgs))],
                  out |-> "ok"]
            ELSE [st |-> st, out |-> "ok"]
    IN IF route = "tels"
       THEN cued(clonePreIter(st, nsKey(ri, vcpre)) \o clonePreIter(st, ri))
       ELSE [st |-> st, out |-> "ValidationError"]

\* Tevery.processQuery: route is ked["r"], ri and vcpre are the query's
\* "ri" and "i"
processQuery(st, route, ri, vcpre, source) ==
    LET cued(msgs) ==
            IF msgs # <<>>
            THEN [st |-> [st EXCEPT !.cues = Append(@, ReplayCue(source, msgs))],
                  out |-> "ok"]
            ELSE [st |-> st, out |-> "ok"]
    IN IF route = "tels"
       THEN cued(clonePreIter(st, ri) \o clonePreIter(st, nsKey(ri, vcpre)))
       ELSE [st |-> st, out |-> "ValidationError"]

(***************************************************************************)
(* The Mailboxer (keri.peer.exchanging) as test_mailboxing uses it: fels   *)
(* holds the digests of the messages of a destination by ordinal, msgs     *)
(* the messages by digest.                                                 *)
(***************************************************************************)
NoMbx == [fels |-> NoTbl, msgs |-> NoTbl]
Dests == {"E1", "E2"}
Msgs == {"m0", "m1", "m2"}
\* coring.Diger(ser = msg).qb64b
MsgDig(msg) == "D" \o msg
\* the number of fels entries of dest
cntFels(mb, dest) == Cardinality({k \in DOMAIN mb.fels : k[1] = dest})

\* mber.storeMsg(dest, msg): the digest goes to the next ordinal of dest
storeMsg(mb, dest, msg) ==
    LET put(dig, on) == [fels |-> PutVal(mb.fels, <<dest, on>>, dig),
                         msgs |-> PinVal(mb.msgs, dig, msg)]
    IN put(MsgDig(msg), cntFels(mb, dest))

\* Variant of mberClonePreIter that starts at ordinal 0 whatever fn is (the
\* replay property C30 must fail with it)
mberClonePreIterAll(mb, pre, fn) ==
    LET from(n) == [j \in 1..n |-> <<j - 1, mb.msgs[mb.fels[<<pre, j - 1>>]]>>]
    IN from(cntFels(mb, pre))

\* mber.clonePreIter(pre, fn): the couples (ordinal, message) of pre from
\* ordinal fn on
mberClonePreIter(mb, pre, fn) ==
    LET ons == {k[2] : k \in {m \in DOMAIN mb.fels : m[1] = pre /\ m[2] >= fn}}
        nth(j) == CHOOSE n \in ons : Cardinality({m \in ons : m < n}) = j - 1
        item(on) == <<on, mb.msgs[mb.fels[<<pre, on>>]]>>
    IN [j \in 1..Cardinality(ons) |-> item(nth(j))]

\* No Tever.update call is in progress
Idle == [at |-> "idle", e |-> Ked, a |-> [sn |-> 0, dig |-> ""], bigers |-> {}]

store == [tvt |-> tvt, tel |-> tel, anc |-> anc, tib |-> tib, bak |-> bak,
          tets |-> tets, tae |-> tae, twe |-> twe, oot |-> oot,
          states |-> states, tevers |-> tevers, cues |-> cues, acc |-> acc]

commit(st) ==
    /\ tvt' = st.tvt /\ tel' = st.tel /\ anc' = st.anc /\ tib' = st.tib
    /\ bak' = st.bak /\ tets' = st.tets /\ tae' = st.tae /\ twe' = st.twe
    /\ oot' = st.oot /\ states' = st.states /\ tevers' = st.tevers
    /\ cues' = st.cues /\ acc' = st.acc

SigsOf(world) ==
    IF world \in {"NB", "NM", "RV", "SN", "LV"} THEN {{}}
    ELSE IF world = "RT" THEN {{"B1", "B2", "B3", "B4"}}
    ELSE IF world = "LC" THEN {{}, {"B1", "B2"}}
    ELSE IF world = "RA" THEN {{"B1", "B2"}, {"B1", "B2", "B3"}}
    ELSE SigChoices
Configs == [world : Worlds, regk : {""}, local : {FALSE}, vfirst : BOOLEAN]

Init ==
    /\ cfg \in Configs
    /\ kelLen = 0 /\ now = 0
    /\ tvt = NoTbl /\ tel = NoTbl /\ anc = NoTbl /\ tib = NoTbl
    /\ bak = NoTbl /\ tets = NoTbl /\ tae = NoTbl /\ twe = NoTbl
    /\ oot = NoTbl /\ states = NoTbl /\ tevers = NoTbl
    /\ cues = <<>> /\ acc = {} /\ pc = Idle /\ mbx = NoMbx

\* Tevery.processEvent(serder=e, seqner=a.sn, diger=a.dig, wigers=sigs)
ProcessEvent ==
    \E e \in EventsOf(cfg.world) : \E a \in AnchorChoices(e) :
        \E sigs \in SigsOf(cfg.world) :
            LET returned(r) == Len(r.st.cues) <= MaxCues /\ commit(r.st)
            IN /\ returned(call(store, e, a, sigs))
               /\ UNCHANGED <<mbx, cfg, kelLen, now, pc>>

\* Tevery.processEscrows()
ProcessEscrows ==
    /\ \E st \in {processEscrows(store)} :
           Len(st.cues) <= MaxCues /\ commit(st)
    /\ UNCHANGED <<mbx, cfg, kelLen, now, pc>>

\* The verifier's copy of the issuer's KEL gains its next event
KelAppend ==
    /\ kelLen < MaxKel
    /\ kelLen' = kelLen + 1
    /\ UNCHANGED <<mbx, cfg, now, tvt, tel, anc, tib, bak, tets, tae, twe, oot,
                   states, tevers, cues, acc, pc>>

Next == ProcessEvent \/ ProcessEscrows \/ KelAppend

Spec == Init /\ [][Next]_vars

\* The runs of the rotation world
RotConfigs == [world : {"RT"}, regk : {""}, local : {FALSE},
               vfirst : {FALSE}, b0 : RotBaks, bt0 : 0..MaxToad,
               br : RotSeqs, ba : RotSeqs, bt : 0..MaxToad]
RotInit ==
    /\ cfg \in RotConfigs
    /\ kelLen = 0 /\ now = 0
    /\ tvt = NoTbl /\ tel = NoTbl /\ anc = NoTbl /\ tib = NoTbl
    /\ bak = NoTbl /\ tets = NoTbl /\ tae = NoTbl /\ twe = NoTbl
    /\ oot = NoTbl /\ states = NoTbl /\ tevers = NoTbl
    /\ cues = <<>> /\ acc = {} /\ pc = Idle /\ mbx = NoMbx
RotSpec == RotInit /\ [][Next]_vars

\* The runs of the locality world LC: a Tevery with an own regk, local or
\* not, is sent the events of its own registry and of another one
LocConfigs == [world : {"LC"}, regk : {"R1", "R2"}, local : BOOLEAN,
               vfirst : BOOLEAN]
LocInit ==
    /\ cfg \in LocConfigs
    /\ kelLen = 0 /\ now = 0
    /\ tvt = NoTbl /\ tel = NoTbl /\ anc = NoTbl /\ tib = NoTbl
    /\ bak = NoTbl /\ tets = NoTbl /\ tae = NoTbl /\ twe = NoTbl
    /\ oot = NoTbl /\ states = NoTbl /\ tevers = NoTbl
    /\ cues = <<>> /\ acc = {} /\ pc = Idle /\ mbx = NoMbx
LocSpec == LocInit /\ [][Next]_vars

\* The runs of the world RA: the backer registry R2 is rotated, and V2 is
\* issued by a bis whose ra names the inception or by one whose ra names
\* the rotation
RaConfigs == [world : {"RA"}, regk : {""}, local : {FALSE},
              vfirst : {FALSE}]
RaInit ==
    /\ cfg \in RaConfigs
    /\ kelLen = 0 /\ now = 0
    /\ tvt = NoTbl /\ tel = NoTbl /\ anc = NoTbl /\ tib = NoTbl
    /\ bak = NoTbl /\ tets = NoTbl /\ tae = NoTbl /\ twe = NoTbl
    /\ oot = NoTbl /\ states = NoTbl /\ tevers = NoTbl
    /\ cues = <<>> /\ acc = {} /\ pc = Idle /\ mbx = NoMbx
RaSpec == RaInit /\ [][Next]_vars

\* The runs of the world RV: V1 of the backerless registry R1 is issued,
\* revoked, and revoked again by an event chained to the revocation
RvConfigs == [world : {"RV"}, regk : {""}, local : {FALSE},
              vfirst : BOOLEAN]
RvInit ==
    /\ cfg \in RvConfigs
    /\ kelLen = 0 /\ now = 0
    /\ tvt = NoTbl /\ tel = NoTbl /\ anc = NoTbl /\ tib = NoTbl
    /\ bak = NoTbl /\ tets = NoTbl /\ tae = NoTbl /\ twe = NoTbl
    /\ oot = NoTbl /\ states = NoTbl /\ tevers = NoTbl
    /\ cues = <<>> /\ acc = {} /\ pc = Idle /\ mbx = NoMbx
RvSpec == RvInit /\ [][Next]_vars

(***************************************************************************)
(* Tever.update on an accepted vrt, statement by statement: the checks     *)
(* and the assignments to the Tever's fields, then logEvent and the pin    *)
(* of the state notice.  The world ST holds the inception and the          *)
(* rotation of R2.                                                         *)
(***************************************************************************)
StConfigs == [world : {"ST"}, regk : {""}, local : {FALSE},
              vfirst : BOOLEAN]
StInit ==
    /\ cfg \in StConfigs
    /\ kelLen = 0 /\ now = 0
    /\ tvt = NoTbl /\ tel = NoTbl /\ anc = NoTbl /\ tib = NoTbl
    /\ bak = NoTbl /\ tets = NoTbl /\ tae = NoTbl /\ twe = NoTbl
    /\ oot = NoTbl /\ states = NoTbl /\ tevers = NoTbl
    /\ cues = <<>> /\ acc = {} /\ pc = Idle /\ mbx = NoMbx

\* processEvent up to tever.update, and Tever.update from validateSN to
\* the assignment of self.adds, for a vrt that passes every check
UpdateAssign ==
    /\ pc.at = "idle"
    /\ \E e \in EventsOf(cfg.world) : \E a \in AnchorChoices(e) :
        \E sigs \in SigsOf(cfg.world) :
            LET set(tv, r, v) ==
                    /\ r.ok /\ v.out = "ok"
                    /\ tevers' = PinVal(tevers, e.i,
                           [tv EXCEPT !.sn = e.s, !.serder = e, !.ilk = e.t,
                                      !.toad = r.toad, !.baks = r.baks,
                                      !.cuts = r.cuts, !.adds = r.adds])
                    /\ pc' = [at |-> "log", e |-> e, a |-> a,
                              bigers |-> v.bigers]
                val(tv, r) ==
                    set(tv, r, valAnchorBigs(store, tv, e, a, sigs, r.toad,
                                             r.baks))
                rot(tv) == val(tv, TeverRotate(tv, e, e.s))
            IN /\ e.t = "vrt"
               /\ validateSN(e.s, FALSE)
               /\ ~localityGate(e.i)
               /\ Has(tevers, e.i)
               /\ e.s = tevers[e.i].sn + 1
               /\ ~tevers[e.i].noBackers
               /\ rot(tevers[e.i])
    /\ UNCHANGED <<mbx, cfg, kelLen, now, tvt, tel, anc, tib, bak, tets, tae,
                   twe, oot, states, cues, acc>>

\* Tever.update from self.logEvent to the return, and the return of
\* processEvent
UpdateLog ==
    /\ pc.at = "log"
    /\ LET pinned(r) == commit([r.st EXCEPT !.acc = @ \cup {pc.e.dig}])
           logged(tv) ==
               pinned(pinState(logEvent(store, tv.regk, pc.e.s, pc.e, pc.a,
                                        pc.bigers, tv.baks), tv))
       IN logged(tevers[pc.e.i])
    /\ pc' = Idle
    /\ UNCHANGED <<mbx, cfg, kelLen, now>>

StNext == (pc.at = "idle" /\ Next) \/ UpdateAssign \/ UpdateLog
StSpec == StInit /\ [][StNext]_vars

(***************************************************************************)
(* Tever.verifyAnchor on its own.  The runs of VaSpec grow the KEL of the  *)
(* world VA and call verifyAnchor for an event of the world and a couple   *)
(* (sn of a KEL event or one past the bound, the digest of that event or   *)
(* another); pc keeps the call and what it gave.                           *)
(***************************************************************************)
VaConfigs == [world : {"VA"}, regk : {""}, local : {FALSE}, vfirst : {FALSE}]
VaInit ==
    /\ cfg \in VaConfigs
    /\ kelLen = 0 /\ now = 0
    /\ tvt = NoTbl /\ tel = NoTbl /\ anc = NoTbl /\ tib = NoTbl
    /\ bak = NoTbl /\ tets = NoTbl /\ tae = NoTbl /\ twe = NoTbl
    /\ oot = NoTbl /\ states = NoTbl /\ tevers = NoTbl
    /\ cues = <<>> /\ acc = {} /\ pc = Idle /\ mbx = NoMbx
VaCouples == [sn : 1..(MaxKel + 1), dig : {KelDig(n) : n \in 1..MaxKel} \cup {"Kx"}]

\* tever.verifyAnchor(serder, seqner, diger) for the Tever of the issuer
VerifyAnchor ==
    /\ \E e \in EventsOf(cfg.world) : \E a \in VaCouples :
           LET called(out) ==
                   pc' = [at |-> "verified", e |-> e, a |-> a, bigers |-> {},
                          kel |-> kelLen, out |-> out]
           IN called(verifyAnchorOut(Issuer, e, a))
    /\ UNCHANGED <<mbx, cfg, kelLen, now, tvt, tel, anc, tib, bak, tets, tae,
                   twe, oot, states, tevers, cues, acc>>

VaNext == KelAppend \/ VerifyAnchor
VaSpec == VaInit /\ [][VaNext]_vars

\* The runs of the world SN: a backerless registry with one credential, and
\* submissions whose sn and kind disagree
SnConfigs == [world : {"SN"}, regk : {""}, local : {FALSE}, vfirst : BOOLEAN]
SnInit ==
    /\ cfg \in SnConfigs
    /\ kelLen = 0 /\ now = 0
    /\ tvt = NoTbl /\ tel = NoTbl /\ anc = NoTbl /\ tib = NoTbl
    /\ bak = NoTbl /\ tets = NoTbl /\ tae = NoTbl /\ twe = NoTbl
    /\ oot = NoTbl /\ states = NoTbl /\ tevers = NoTbl
    /\ cues = <<>> /\ acc = {} /\ pc = Idle /\ mbx = NoMbx
SnSpec == SnInit /\ [][Next]_vars

(***************************************************************************)
(* The constructor rotate and Tever.rotate side by side.  A run of RcSpec  *)
(* takes a prior backer list, cuts, adds and a threshold (or none), calls  *)
(* the constructor, and has a Tever of R3 at sn 0 with that backer list    *)
(* check the vrt of those cuts, adds and threshold; pc keeps both results. *)
(***************************************************************************)
RcBaks == RotBaks \cup {<<"B1">>, <<"B1", "B2">>}
RcToads == {<<>>} \cup {<<t>> : t \in 0..MaxToad}
RcTever(baks) ==
    [regk |-> "R3", sn |-> 0, baks |-> baks,
     serder |-> incept("R3", Issuer, 0, baks, {}, "DvcpT")]
RcConfigs == [world : {"RC"}, regk : {""}, local : {FALSE}, vfirst : {FALSE}]
RcInit ==
    /\ cfg \in RcConfigs
    /\ kelLen = 0 /\ now = 0
    /\ tvt = NoTbl /\ tel = NoTbl /\ anc = NoTbl /\ tib = NoTbl
    /\ bak = NoTbl /\ tets = NoTbl /\ tae = NoTbl /\ twe = NoTbl
    /\ oot = NoTbl /\ states = NoTbl /\ tevers = NoTbl
    /\ cues = <<>> /\ acc = {} /\ pc = Idle /\ mbx = NoMbx
RotateBoth ==
    /\ pc.at = "idle"
    /\ \E baks \in RcBaks : \E cuts \in RotSeqs : \E adds \in RotSeqs :
        \E toad \in RcToads :
            LET both(made, got) ==
                    pc' = [at |-> "rotated", e |-> Ked, a |-> Idle.a,
                           bigers |-> {}, baks |-> baks, cuts |-> cuts,
                           adds |-> adds, toad |-> toad, made |-> made,
                           got |-> got]
                checked(made) ==
                    both(made,
                         TeverRotate(RcTever(baks),
                                     rotate("R3", "DvcpT", 1, made.toad, cuts,
                                            adds, "DvrtT"), 1))
            IN checked(rotateValid(1, toad, baks, cuts, adds))
    /\ UNCHANGED <<mbx, cfg, kelLen, now, tvt, tel, anc, tib, bak, tets, tae,
                   twe, oot, states, tevers, cues, acc>>
RcSpec == RcInit /\ [][RotateBoth]_vars

(***************************************************************************)
(* test_mailboxing: messages are stored for a destination one by one and   *)
(* the messages of a destination are cloned from an ordinal; pc keeps the  *)
(* last call.                                                              *)
(***************************************************************************)
MbConfigs == [world : {"MB"}, regk : {""}, local : {FALSE}, vfirst : {FALSE}]
MbInit ==
    /\ cfg \in MbConfigs
    /\ kelLen = 0 /\ now = 0
    /\ tvt = NoTbl /\ tel = NoTbl /\ anc = NoTbl /\ tib = NoTbl
    /\ bak = NoTbl /\ tets = NoTbl /\ tae = NoTbl /\ twe = NoTbl
    /\ oot = NoTbl /\ states = NoTbl /\ tevers = NoTbl
    /\ cues = <<>> /\ acc = {} /\ pc = Idle /\ mbx = NoMbx

\* mber.storeMsg(dest = dest, msg = msg)
StoreMsg ==
    /\ \E dest \in Dests : \E msg \in Msgs :
           /\ cntFels(mbx, dest) < MaxMsgs
           /\ mbx' = storeMsg(mbx, dest, msg)
           /\ pc' = [at |-> "stored", e |-> Ked, a |-> Idle.a, bigers |-> {},
                     dest |-> dest, msg |-> msg]
    /\ UNCHANGED <<cfg, kelLen, now, tvt, tel, anc, tib, bak, tets, tae,
                   twe, oot, states, tevers, cues, acc>>

\* for msg in mber.clonePreIter(pre = dest, fn = fn): msgs.append(msg)
CloneMsgs ==
    /\ \E dest \in Dests : \E fn \in 0..(MaxMsgs + 1) :
           LET cloned(out) ==
                   pc' = [at |-> "cloned", e |-> Ked, a |-> Idle.a,
                          bigers |-> {}, dest |-> dest, fn |-> fn,
                          out |-> out]
           IN cloned(mberClonePreIter(mbx, dest, fn))
    /\ UNCHANGED <<mbx, cfg, kelLen, now, tvt, tel, anc, tib, bak, tets,
                   tae, twe, oot, states, tevers, cues, acc>>

MbNext == StoreMsg \/ CloneMsgs
MbSpec == MbInit /\ [][MbNext]_vars

(***************************************************************************)
(* Queries.  The runs of QrySpec submit events of the world LC (the        *)
(* registries R1 and R2 with one credential each) and queries for the      *)
(* logs of either registry and either credential, by either route.         *)
(***************************************************************************)
Routes == {"tels", "logs"}
Registries == {"R1", "R2"}
Sources == {"S1", "S2"}
QryConfigs == [world : {"LC"}, regk : {""}, local : {FALSE}, vfirst : {FALSE}]
QryInit ==
    /\ cfg \in QryConfigs
    /\ kelLen = 0 /\ now = 0
    /\ tvt = NoTbl /\ tel = NoTbl /\ anc = NoTbl /\ tib = NoTbl
    /\ bak = NoTbl /\ tets = NoTbl /\ tae = NoTbl /\ twe = NoTbl
    /\ oot = NoTbl /\ states = NoTbl /\ tevers = NoTbl
    /\ cues = <<>> /\ acc = {} /\ pc = Idle /\ mbx = NoMbx

\* Tevery.processQuery(serder, source): a raise leaves the state as it was
ProcessQuery ==
    /\ \E route \in Routes : \E ri \in Registries : \E vcpre \in Creds :
        \E source \in Sources :
            LET returned(r) == Len(r.st.cues) <= MaxCues /\ commit(r.st)
            IN returned(processQuery(store, route, ri, vcpre, source))
    /\ UNCHANGED <<mbx, cfg, kelLen, now, pc>>

QryNext == ProcessEvent \/ ProcessEscrows \/ KelAppend \/ ProcessQuery
QrySpec == QryInit /\ [][QryNext]_vars

(***************************************************************************)
(* Tever.logEvent on its own.  The runs of LgSpec call logEvent for an     *)
(* event of the world LG (the inception of R2 and the issuance of V2), a   *)
(* couple, backer signatures and a backer list, while the clock that       *)
(* coring.Dater() reads advances; pc keeps the arguments of the last call. *)
(***************************************************************************)
MaxNow == 2
LgConfigs == [world : {"LG"}, regk : {""}, local : {FALSE}, vfirst : {FALSE}]
LgInit ==
    /\ cfg \in LgConfigs
    /\ kelLen = 0 /\ now = 0
    /\ tvt = NoTbl /\ tel = NoTbl /\ anc = NoTbl /\ tib = NoTbl
    /\ bak = NoTbl /\ tets = NoTbl /\ tae = NoTbl /\ twe = NoTbl
    /\ oot = NoTbl /\ states = NoTbl /\ tevers = NoTbl
    /\ cues = <<>> /\ acc = {} /\ pc = Idle /\ mbx = NoMbx
LgCouples == {[sn |-> 1, dig |-> "K1"], [sn |-> 2, dig |-> "K2"]}
LgBigers == {{}, {"B1"}}
LgBaks == {<<>>, <<"B1", "B2">>}

\* The clock advances
Tick ==
    /\ now < MaxNow
    /\ now' = now + 1
    /\ UNCHANGED <<mbx, cfg, kelLen, tvt, tel, anc, tib, bak, tets, tae, twe,
                   oot, states, tevers, cues, acc, pc>>

\* tever.logEvent(pre, sn, serder, seqner, diger, bigers, baks), with pre
\* the registry for a management event and the credential's key otherwise
LogEvent ==
    /\ \E e \in EventsOf(cfg.world) : \E a \in LgCouples :
        \E bigers \in LgBigers : \E baks \in LgBaks :
            LET logged(pre) ==
                    commit(logEvent(store, pre, e.s, e, a, bigers, baks))
            IN /\ logged(IF e.t \in {"vcp", "vrt"} THEN e.i
                         ELSE nsKey(registryKey(e), e.i))
               /\ pc' = [at |-> "logged", e |-> e, a |-> a,
                         bigers |-> bigers, baks |-> baks]
    /\ UNCHANGED <<mbx, cfg, kelLen, now>>

LgNext == Tick \/ LogEvent
LgSpec == LgInit /\ [][LgNext]_vars

(***************************************************************************)
(* Recovery from the anchorless escrow.  The runs of LvSpec submit the     *)
(* inception of R1 and the issuance of V1 while the KEL grows, with the    *)
(* drain visiting the entry of the credential before that of the registry  *)
(* (vfirst) or after it.  The escrows are drained again and again and the  *)
(* KEL events of the issuer keep arriving: processEscrows and the arrival  *)
(* of a KEL event are taken whenever they stay possible.                   *)
(***************************************************************************)
LvConfigs == [world : {"LV"}, regk : {""}, local : {FALSE}, vfirst : BOOLEAN]
LvInit ==
    /\ cfg \in LvConfigs
    /\ kelLen = 0 /\ now = 0
    /\ tvt = NoTbl /\ tel = NoTbl /\ anc = NoTbl /\ tib = NoTbl
    /\ bak = NoTbl /\ tets = NoTbl /\ tae = NoTbl /\ twe = NoTbl
    /\ oot = NoTbl /\ states = NoTbl /\ tevers = NoTbl
    /\ cues = <<>> /\ acc = {} /\ pc = Idle /\ mbx = NoMbx
LvSpec ==
    LvInit /\ [][Next]_vars /\ WF_vars(ProcessEscrows) /\ WF_vars(KelAppend)

(***************************************************************************)
(* Properties.  Inputs(P) says P of every call the environment can make    *)
(* in the current state.                                                   *)
(***************************************************************************)
Inputs(P(_, _, _)) ==
    \A e \in EventsOf(cfg.world) : \A a \in AnchorChoices(e) :
        \A sigs \in SigsOf(cfg.world) : P(e, a, sigs)
SomeInput(P(_, _, _)) ==
    \E e \in EventsOf(cfg.world) : \E a \in AnchorChoices(e) :
        \E sigs \in SigsOf(cfg.world) : P(e, a, sigs)
V1Log == nsKey("R1", "V1")

\* C1: every first-seen log, of a registry or of a credential, is a hash
\* chain: the event first seen at sn n > 0 carries as p the digest of the
\* event first seen at sn n - 1 of the same log.
C1_HashChain ==
    \A k \in DOMAIN tel : k[2] > 0 =>
        /\ Has(tel, <<k[1], k[2] - 1>>)
        /\ Has(tvt, <<k[1], tel[k]>>)
        /\ tvt[<<k[1], tel[k]>>].p = tel[<<k[1], k[2] - 1>>]
\* a revocation is first seen on top of the issuance it names
C1_Witness ==
    /\ Has(tel, <<V1Log, 1>>) /\ tel[<<V1Log, 1>>] = "Drev1"
    /\ tel[<<V1Log, 0>>] = "Diss1"

\* Parts of C2: tel entries are kept by a step; a stamped event is the tel
\* entry of its log at its sn
TelKept == \A k \in DOMAIN tel : Has(tel', k) /\ tel'[k] = tel[k]
FirstSeenUnique ==
    \A k \in DOMAIN tets :
        /\ Has(tvt, k)
        /\ Has(tel, <<k[1], tvt[k].s>>)
        /\ tel[<<k[1], tvt[k].s>>] = k[2]
\* C2: first seen is unique and monotonic: no step removes or replaces a
\* tel entry, and every event stamped first seen in a log is the one tel
\* entry at its sn in that log.
C2_FirstSeenOnce == [][TelKept /\ FirstSeenUnique']_vars
\* a second, anchored issuance of a credential whose sn 0 is taken is refused
C2_Witness ==
    /\ Has(tel, <<V1Log, 0>>) /\ tel[<<V1Log, 0>>] = "Diss1"
    /\ cfg.world = "NB" /\ kelLen = 4
    /\ processEvent(store, iss1x, [sn |-> 4, dig |-> KelDig(4)], {}).out
           = "LikelyDuplicitousError"

\* Parts of C3: the expected sn as the property words it, and the three
\* cases for one call
C3_Sno(e) ==
    IF e.t = "vrt" THEN tevers[registryKey(e)].sn + 1
    ELSE Cardinality({k \in DOMAIN tel : k[1] = nsKey(registryKey(e), e.i)})
C3_Case(e, a, sigs) ==
    LET r == processEvent(store, e, a, sigs) IN
    (e.t # "vcp" /\ Has(tevers, registryKey(e))) =>
        /\ e.s > C3_Sno(e) =>
              /\ r.out = "OutOfOrderError"
              /\ r.st = escrowOOEvent(store, e, a)
              /\ r.st.tel = tel
        /\ e.s = C3_Sno(e) =>
              r = TeverUpdate(store, tevers[registryKey(e)], e, a, sigs)
        /\ e.s < C3_Sno(e) =>
              r.out = "LikelyDuplicitousError" /\ r.st = store
\* C3: for a non-vcp event of a registry in the cache, with sno the
\* Tever's sn + 1 for a vrt and else the number of first-seen events of
\* the credential: sn > sno escrows out of order and leaves tel alone,
\* sn = sno is Tever.update, sn < sno raises likely duplicitous and
\* writes nothing.
C3_SnGate == Inputs(C3_Case)
\* the revocation was escrowed out of order, the issuance is first seen:
\* now the revocation is in order and the issuance is a duplicate
C3_Equal(e, a, sigs) ==
    /\ e.t # "vcp" /\ Has(tevers, registryKey(e)) /\ e.s = C3_Sno(e)
    /\ processEvent(store, e, a, sigs).out = "ok"
C3_Earlier(e, a, sigs) ==
    e.t # "vcp" /\ Has(tevers, registryKey(e)) /\ e.s < C3_Sno(e)
C3_Witness ==
    /\ Has(oot, <<"V1", 1>>) /\ "Diss1" \in acc
    /\ SomeInput(C3_Equal) /\ SomeInput(C3_Earlier)

\* The couple a names the KEL event of the issuer, held by the verifier,
\* whose one seal is that of e
Anchored(e, a) ==
    /\ a.sn \in 1..kelLen
    /\ a.dig = KelDig(a.sn)
    /\ KelSeals(a.sn) = <<SealOf(e)>>

\* Parts of C4: a processEvent call, an escrow drain, the events in tel
C4_Call(e, a, sigs) ==
    \A k \in DOMAIN processEvent(store, e, a, sigs).st.tel \ DOMAIN tel :
        /\ processEvent(store, e, a, sigs).st.tel[k] = e.dig
        /\ Anchored(e, a)
C4_Drain ==
    LET r == processEscrows(store) IN
    \A k \in DOMAIN r.tel \ DOMAIN tel :
        LET e == r.tvt[<<k[1], r.tel[k]>>] IN
        /\ Has(anc, <<e.i, e.dig>>)
        /\ Anchored(e, anc[<<e.i, e.dig>>])
C4_Logged ==
    \A k \in DOMAIN tel :
        \E n \in 1..kelLen : KelSeals(n) = <<SealOf(tvt[<<k[1], tel[k]>>])>>
\* C4: an event becomes first seen only while the issuer's KEL holds, at
\* the sn and digest of the anchor couple it is processed with, an event
\* whose seal is {i, s, d} of the event: in a processEvent call, in an
\* escrow drain (with the couple stored with the escrowed event), and so
\* for every event in tel.
C4_AnchoredWhenLogged == Inputs(C4_Call) /\ C4_Drain /\ C4_Logged
\* the registry is first seen while an issuance waits in tae for a KEL
\* event the verifier does not hold
C4_Witness ==
    /\ Has(tel, <<"R1", 0>>)
    /\ Has(tae, <<"V1", 0>>)
    /\ ~Anchored(tvt[<<"V1", tae[<<"V1", 0>>]>>],
                 anc[<<"V1", tae[<<"V1", 0>>]>>])
    /\ ~Has(tel, <<V1Log, 0>>)

\* C5: the mode of a registry is that of its first-seen vcp: under a vcp
\* with the NoBackers trait no vrt, bis or brv is first seen, under a vcp
\* without it no iss or rev.
C5_ModeSeparation ==
    \A k \in DOMAIN tel :
        LET e == tvt[<<k[1], tel[k]>>]
            regk == registryKey(e)
        IN
        /\ Has(tel, <<regk, 0>>)
        /\ IF NB \in tvt[<<regk, tel[<<regk, 0>>]>>].c
           THEN e.t \notin {"vrt", "bis", "brv"}
           ELSE e.t \notin {"iss", "rev"}
\* an anchored vrt and an anchored bis are refused by a backerless registry
C5_Witness ==
    /\ cfg.world = "NM" /\ kelLen = 4 /\ Has(tel, <<"R1", 0>>)
    /\ processEvent(store, vrt1, [sn |-> 3, dig |-> KelDig(3)], {}).out
           = "ValidationError"
    /\ processEvent(store, bis1, [sn |-> 4, dig |-> KelDig(4)], {}).out
           = "ValidationError"

\* C6: the digest of an event parked in oot, tae or twe that no
\* processEvent call has accepted is in neither tel nor tets.
C6_EscrowedNotFirstSeen ==
    \A d \in Range(oot) \cup Range(tae) \cup Range(twe) :
        d \notin acc =>
            /\ d \notin Range(tel)
            /\ \A k \in DOMAIN tets : k[2] # d
\* something is first seen while each escrow holds an unaccepted event
C6_Witness ==
    /\ tel # NoTbl
    /\ \E k \in DOMAIN oot : oot[k] \notin acc
    /\ \E k \in DOMAIN tae : tae[k] \notin acc
    /\ \E k \in DOMAIN twe : twe[k] \notin acc

\* C7: an iss escrowed out of order before the vcp of its registry is
\* applied by processEscrows once the vcp is accepted: it is first seen at
\* sn 0 of the credential's log and has left oot.  (Stated for an iss of a
\* backerless registry whose stored anchor couple verifies.)
C7_OotRecovery ==
    \A e \in EventsOf(cfg.world) :
        LET vci == nsKey(e.ri, e.i)
            r == processEscrows(store)
        IN
        (/\ e.t = "iss"
         /\ Has(oot, <<e.i, e.s>>) /\ oot[<<e.i, e.s>>] = e.dig
         /\ Has(tevers, e.ri) /\ tevers[e.ri].noBackers
         /\ Has(anc, <<e.i, e.dig>>) /\ Anchored(e, anc[<<e.i, e.dig>>])
         /\ ~Has(tel, <<vci, 0>>))
        => /\ Has(r.tel, <<vci, 0>>) /\ r.tel[<<vci, 0>>] = e.dig
           /\ ~Has(r.oot, <<e.i, e.s>>)

\* The locality rule of processEvent lets events of registry regk through
LocalityOk(regk) ==
    cfg.regk = "" \/ (IF cfg.local THEN cfg.regk = regk ELSE cfg.regk # regk)

\* C8 for one call
C8_Case(e, a, sigs) ==
    LET r == processEvent(store, e, a, sigs)
        key == <<e.i, e.s>>
    IN
    (e.t # "vcp" /\ ~Has(tevers, registryKey(e))
                /\ LocalityOk(registryKey(e))) =>
        /\ r.out = "OutOfOrderError"
        /\ r.st.tevers = tevers
        /\ r.st.tel = tel
        /\ Has(r.st.tvt, <<e.i, e.dig>>)
        /\ Has(r.st.anc, <<e.i, e.dig>>)
        /\ DOMAIN r.st.oot = DOMAIN oot \cup {key}
        /\ \A k \in DOMAIN oot : r.st.oot[k] = oot[k]
        /\ ~Has(oot, key) => r.st.oot[key] = e.dig
\* C8: a non-vcp event of a registry that is not in the cache raises out
\* of order, creates no Tever, writes nothing to tel, stores the event and
\* its couple, and parks its digest in oot under the key of the event's own
\* identifier and sn (the credential for an iss), where an entry already
\* at that key is kept; no other oot entry changes.
C8_FirstSight == Inputs(C8_Case)
\* the statement with the key formed from the registry
C8_Original(e, a, sigs) ==
    LET r == processEvent(store, e, a, sigs)
        key == <<registryKey(e), e.s>>
    IN
    (e.t # "vcp" /\ ~Has(tevers, registryKey(e))
                /\ LocalityOk(registryKey(e))) =>
        /\ r.out = "OutOfOrderError"
        /\ r.st.tevers = tevers
        /\ r.st.tel = tel
        /\ Has(r.st.oot, key) /\ r.st.oot[key] = e.dig
C8_KeyedByRegistry == Inputs(C8_Original)
\* an issuance is parked under the credential before the registry is
\* known, and the other issuance of that credential would find the key
\* taken
C8_Witness ==
    /\ ~Has(tevers, "R1")
    /\ Has(oot, <<"V1", 0>>) /\ oot[<<"V1", 0>>] = "Diss1"
    /\ ~Has(oot, <<"R1", 0>>)
    /\ iss1x \in EventsOf(cfg.world)

\* C9 for one call
C9_Case(e, a, sigs) ==
    LET r == processEvent(store, e, a, sigs) IN
    r.out = "MissingAnchorError" =>
        /\ Has(r.st.tae, <<e.i, e.s>>)
        /\ r.st.tae[<<e.i, e.s>>] = e.dig
\* C9: after a processEvent call that raised missing anchor for E, tae
\* holds E's digest at the key of E's identifier and sn, whatever tae held
\* before.
C9_EscrowedAnchorless == Inputs(C9_Case)

\* The prefix of the query cue: the issuer of the registry of e
C10_Pre(e) == IF e.t = "vcp" THEN e.ii ELSE tevers[registryKey(e)].pre

\* C10 for one call
C10_Case(e, a, sigs) ==
    LET r == processEvent(store, e, a, sigs) IN
    r.out = "MissingAnchorError" =>
        r.st.cues = IF Has(tae, <<e.i, e.s>>) THEN cues
                    ELSE Append(cues, QueryCue(C10_Pre(e), a.sn))
\* C10: a processEvent call that raises missing anchor appends the query
\* cue {pre: issuer, sn: couple's sn} exactly when the tae key of the
\* event was free before the call, and appends nothing when it was taken
\* (a repeated submission, another event parked there); an escrow drain
\* appends no cue.
C10_CueWhenNewlyEscrowed ==
    Inputs(C10_Case) /\ processEscrows(store).cues = cues
\* the statement with a cue on every failure
C10_Original(e, a, sigs) ==
    LET r == processEvent(store, e, a, sigs) IN
    r.out = "MissingAnchorError" =>
        r.st.cues = Append(cues, QueryCue(C10_Pre(e), a.sn))
C10_DrainRetryCues ==
    (\E k \in DOMAIN processEscrows(store).tae : Has(tae, k))
        => Len(processEscrows(store).cues) > Len(cues)
C10_CueOnEveryFailure == Inputs(C10_Original) /\ C10_DrainRetryCues
\* one event was cued and waits in tae, where a repeat of it raises
\* missing anchor again; another event would be newly parked
C10_Repeat(e, a, sigs) ==
    /\ processEvent(store, e, a, sigs).out = "MissingAnchorError"
    /\ Has(tae, <<e.i, e.s>>) /\ tae[<<e.i, e.s>>] = e.dig
C10_Fresh(e, a, sigs) ==
    /\ processEvent(store, e, a, sigs).out = "MissingAnchorError"
    /\ ~Has(tae, <<e.i, e.s>>)
C10_Witness ==
    /\ Len(cues) = 1
    /\ SomeInput(C10_Repeat) /\ SomeInput(C10_Fresh)
    /\ processEscrows(store).tae = tae

\* The event, couple and signatures stored for the tae entry at key k
TaeEvt(k) == tvt[<<k[1], tae[k]>>]
TaeAnc(k) == anc[<<k[1], tae[k]>>]
TaeSigs(k) == IF Has(tib, <<k[1], tae[k]>>) THEN tib[<<k[1], tae[k]>>] ELSE {}
Outcomes == {"ok", "ValidationError", "ValueError", "OutOfOrderError",
             "LikelyDuplicitousError", "MissingAnchorError",
             "MissingWitnessSignatureError", "TypeError", "KeyError"}

\* C11 for the entry at k: against the outcome of processEvent on what is
\* stored, and with the stored event or couple missing
C11_Entry(k) ==
    LET c == processEvent(store, TaeEvt(k), TaeAnc(k), TaeSigs(k))
        r == drainOne(store, tae, k)
    IN
    /\ Has(tvt, <<k[1], tae[k]>>) /\ Has(anc, <<k[1], tae[k]>>)
    /\ c.out \in Outcomes
    /\ c.out = "MissingAnchorError" => Has(r.tae, k) /\ r.tae[k] = tae[k]
    /\ c.out # "MissingAnchorError" => ~Has(r.tae, k)
    /\ c.out = "ok" => tae[k] \in Range(r.tel)
    /\ \A f \in {"tvt", "tel", "anc", "tib", "bak", "tets", "twe", "oot",
                  "states", "tevers", "cues"} : r[f] = c.st[f]
    /\ drainOne([store EXCEPT !.tvt = NoTbl], tae, k).tae = DelVal(tae, k)
    /\ drainOne([store EXCEPT !.anc = NoTbl], tae, k).tae = DelVal(tae, k)
\* C11 for a whole drain: what stays parked is what was parked and is
\* still unanchored; an entry whose couple verifies does not stay
C11_Drain ==
    LET r == processEscrows(store) IN
    \A k \in DOMAIN tae :
        IF Has(r.tae, k)
        THEN r.tae[k] = tae[k] /\ ~Anchored(TaeEvt(k), TaeAnc(k))
        ELSE TRUE
\* C11: the anchorless drain re-runs processEvent on the stored event,
\* signatures and couple of each tae entry; the entry is deleted on success
\* and on every error but missing anchor (a missing stored event or couple
\* included), and left in place on missing anchor; the drain adds no entry
\* and ends normally on every outcome.
C11_DrainOutcomes ==
    /\ \A k \in DOMAIN tae : C11_Entry(k)
    /\ C11_Drain
    /\ DOMAIN processEscrows(store).tae \subseteq DOMAIN tae
\* one entry is left on missing anchor while another is deleted on a
\* likely duplicitous event
C11_Witness ==
    /\ \E k \in DOMAIN tae :
          processEvent(store, TaeEvt(k), TaeAnc(k), TaeSigs(k)).out
              = "MissingAnchorError"
    /\ \E k \in DOMAIN tae :
          processEvent(store, TaeEvt(k), TaeAnc(k), TaeSigs(k)).out
              = "LikelyDuplicitousError"

\* The backer threshold and list an event is held to: those of the event
\* for vcp, the rotated list for vrt, those of the management event named
\* by ra for bis and brv, none for iss and rev
GovToad(e) ==
    IF e.t \in {"vcp", "vrt"} THEN e.bt
    ELSE IF e.t \in {"bis", "brv"}
    THEN getBackerState(store, tevers[registryKey(e)], e).toad
    ELSE 0
GovBaks(e) ==
    IF e.t = "vcp" THEN e.b
    ELSE IF e.t = "vrt"
    THEN newBaks(tevers[registryKey(e)].baks, e.br, e.ba)
    ELSE IF e.t \in {"bis", "brv"}
    THEN getBackerState(store, tevers[registryKey(e)], e).baks
    ELSE <<>>
\* The log key of an event: the registry for vcp and vrt, else the
\* registry and the credential
LogKey(e) ==
    IF e.t \in {"vcp", "vrt"} THEN e.i ELSE nsKey(registryKey(e), e.i)

\* The conditions of C12 on the tae entry at k
C12_Ready(k) ==
    /\ Anchored(TaeEvt(k), TaeAnc(k))
    /\ TaeEvt(k).t = "vcp" \/ Has(tevers, registryKey(TaeEvt(k)))
    /\ IF TaeEvt(k).t = "vcp" THEN TaeEvt(k).s = 0
       ELSE TaeEvt(k).s = expectedSn(store, tevers[registryKey(TaeEvt(k))],
                                     TaeEvt(k))
    /\ Cardinality(verifySigs(TaeSigs(k), GovBaks(TaeEvt(k))))
           >= GovToad(TaeEvt(k))
\* C12: an event parked in tae whose stored couple now names a KEL event
\* with the single matching seal, whose registry is known (or which is a
\* vcp), whose sn is the expected next one and which meets the backer
\* threshold is first-seen and out of tae after the next processEscrows.
C12_AnchorlessRecovery ==
    LET r == processEscrows(store) IN
    \A k \in DOMAIN tae :
        C12_Ready(k) =>
            /\ Has(r.tel, <<LogKey(TaeEvt(k)), TaeEvt(k).s>>)
            /\ r.tel[<<LogKey(TaeEvt(k)), TaeEvt(k).s>>] = tae[k]
            /\ ~Has(r.tae, k)
\* a parked event that is not yet first-seen is ready, and the drain logs it
C12_Witness ==
    \E k \in DOMAIN tae :
        /\ C12_Ready(k)
        /\ tae[k] \notin Range(tel)
        /\ tae[k] \in Range(processEscrows(store).tel)

\* C13: processEscrows is idempotent on the accepted state: with no
\* processEvent call and no KEL change in between, states and tel after a
\* second run are those after the first run.
C13_DrainIdempotent ==
    LET r == processEscrows(store) IN
    /\ processEscrows(r).states = r.states
    /\ processEscrows(r).tel = r.tel
\* two entries are parked and the first run logs both
C13_Witness ==
    /\ Cardinality(DOMAIN tae) >= 2
    /\ Cardinality(DOMAIN processEscrows(store).tel)
          >= Cardinality(DOMAIN tel) + 2

\* The case of C14: a vrt of a cached backer registry that passes the
\* checks of Tever.rotate and whose couple verifies
C14_Pre(e, a) ==
    /\ e.t = "vrt" /\ ~cfg.local
    /\ Has(tevers, e.i)
    /\ ~tevers[e.i].noBackers
    /\ TeverRotate(tevers[e.i], e, e.s).ok
    /\ Anchored(e, a)
    /\ GovBaks(e) # <<>>
\* C14 for one call
C14_Case(e, a, sigs) ==
    LET c == processEvent(store, e, a, sigs)
        valid == sigs \cap Range(GovBaks(e))
    IN
    C14_Pre(e, a) =>
        IF Cardinality(valid) < e.bt
        THEN /\ c.out = "MissingWitnessSignatureError"
             /\ Has(c.st.twe, <<e.i, e.s>>) /\ c.st.twe[<<e.i, e.s>>] = e.dig
             /\ c.st.tel = tel
             /\ c.st.tevers = tevers
             /\ c.st.states = states
        ELSE /\ c.out = "ok"
             /\ c.st.tel = PutVal(tel, <<e.i, e.s>>, e.dig)
             /\ c.st.tevers[e.i].sn = e.s
             /\ c.st.tevers[e.i].toad = e.bt
             /\ c.st.tevers[e.i].baks = GovBaks(e)
\* C14: on a non-local verifier an anchored vrt of a backer registry with
\* fewer valid signatures than toad, counted against the new backer list,
\* raises missing witness signature, is recorded under twe and is not
\* first-seen, the Tever keeping its sn, baks and toad; submitted with at
\* least toad valid signatures it is first-seen and the rotation commits.
C14_PartialWitnessing == Inputs(C14_Case)
\* the rotation is recorded under twe from a partial submission and has
\* been committed by a later one
C14_Witness ==
    /\ Has(twe, <<"R2", 1>>) /\ twe[<<"R2", 1>>] = "Dvrt2"
    /\ Has(tel, <<"R2", 1>>) /\ tel[<<"R2", 1>>] = "Dvrt2"
    /\ tevers["R2"].baks = <<"B1", "B3">>

\* The backer list of the management event with digest d, from the events
\* themselves: that of the inception, rotated by each vrt of the chain
RECURSIVE MgmtBaks(_)
MgmtBaks(d) ==
    LET e == CHOOSE x \in Events : x.dig = d IN
    IF e.t = "vcp" THEN e.b
    ELSE newBaks(MgmtBaks(e.p), e.br, e.ba)
MgmtToad(d) == (CHOOSE x \in Events : x.dig = d).bt
\* The list and the threshold C15 holds an event to
C15_Baks(e) == IF e.t \in {"vcp", "vrt"} THEN MgmtBaks(e.dig)
               ELSE MgmtBaks(e.ra.d)
C15_Toad(e) == IF e.t \in {"vcp", "vrt"} THEN e.bt ELSE MgmtToad(e.ra.d)
\* C15 for one call that makes e first-seen
C15_Case(e, a, sigs) ==
    LET c == processEvent(store, e, a, sigs) IN
    /\ ~cfg.local
    /\ e.t \in {"vcp", "vrt", "bis", "brv"}
    /\ c.out = "ok"
    /\ C15_Baks(e) # <<>>
    => Cardinality(sigs \cap Range(C15_Baks(e))) >= C15_Toad(e)
\* The same where the management event named by ra is itself first-seen
C15_AcceptedRa(e, a, sigs) ==
    (e.t \in {"bis", "brv"} => e.ra.d \in Range(tel)) => C15_Case(e, a, sigs)
C15_ThresholdUnderAcceptedRa == Inputs(C15_AcceptedRa)
\* C15: on a verifier with local = false every first-seen vcp, vrt, bis or
\* brv whose governing backer list is not empty was accepted with at least
\* toad valid signatures of distinct backers of that list: the new list
\* for vcp and vrt, the list of the management event named by ra for bis
\* and brv.
C15_BackerThreshold == Inputs(C15_Case)

\* The list seq without the members of the list gone, in the order of seq
Minus(seq, gone) == LET stays(x) == x \notin Range(gone) IN SelectSeq(seq, stays)
\* The cuts and adds C16 rejects against the backer list prev
C16_Bad(prev, br, ba) ==
    \/ ~NoDups(br) \/ ~NoDups(ba)
    \/ ~(Range(br) \subseteq Range(prev))
    \/ Range(br) \cap Range(ba) # {}
    \/ Range(ba) \cap Range(prev) # {}
\* C16 for one call on a vrt of a cached registry
C16_Case(e, a, sigs) ==
    LET c == processEvent(store, e, a, sigs) IN
    e.t = "vrt" /\ Has(tevers, e.i) =>
        /\ c.out = "ok" =>
              /\ c.st.tevers[e.i].baks = Minus(tevers[e.i].baks, e.br) \o e.ba
              /\ c.st.tevers[e.i].cuts = e.br
              /\ c.st.tevers[e.i].adds = e.ba
        /\ C16_Bad(tevers[e.i].baks, e.br, e.ba) =>
              c.out # "ok" /\ c.st = store
\* C16 for the Tever of R3 once its rotation is in force, however the
\* rotation was processed
C16_Rotated ==
    Has(tevers, "R3") /\ tevers["R3"].sn = 1 =>
        /\ ~C16_Bad(cfg.b0, cfg.br, cfg.ba)
        /\ tevers["R3"].baks = Minus(cfg.b0, cfg.br) \o cfg.ba
        /\ tevers["R3"].cuts = cfg.br /\ tevers["R3"].adds = cfg.ba
\* C16: after an accepted vrt with cuts br and adds ba the backer list is
\* the previous list without br, in its order, followed by ba, with cuts =
\* br and adds = ba; a vrt is rejected with no state change when br or ba
\* has duplicates, br is not within the previous list, br meets ba, or ba
\* meets the previous list.
C16_RotateBackers == Inputs(C16_Case) /\ C16_Rotated
\* the scenario: [B1,B2,B3] cut B2 add B4 gives [B1,B3,B4]
C16_Witness ==
    /\ cfg.world = "RT"
    /\ cfg.b0 = <<"B1", "B2", "B3">>
    /\ cfg.br = <<"B2">> /\ cfg.ba = <<"B4">>
    /\ Has(tevers, "R3") /\ tevers["R3"].sn = 1
    /\ tevers["R3"].baks = <<"B1", "B3", "B4">>

\* toad is consistent with the list baks, which has no duplicates
C17_Consistent(toad, baks) ==
    /\ NoDups(baks)
    /\ toad = 0 <=> baks = <<>>
    /\ baks # <<>> => 1 <= toad /\ toad <= Len(baks)
\* C17 for one call: an inception or rotation that would break the
\* invariant is rejected and changes no Tever
C17_Case(e, a, sigs) ==
    LET c == processEvent(store, e, a, sigs) IN
    /\ e.t = "vcp" /\ ~C17_Consistent(e.bt, e.b) =>
          c.out # "ok" /\ c.st.tevers = tevers
    /\ /\ e.t = "vrt" /\ Has(tevers, e.i)
       /\ ~C17_Consistent(e.bt, Minus(tevers[e.i].baks, e.br) \o e.ba)
       => c.out # "ok" /\ c.st.tevers = tevers
\* C17: the baks of every Tever has no duplicates and its toad is 0
\* exactly when baks is empty and otherwise between 1 and the length of
\* baks; an inception or rotation that would break this is rejected.
C17_ToadMatchesBaks ==
    /\ \A r \in DOMAIN tevers :
          C17_Consistent(tevers[r].toad, tevers[r].baks)
    /\ Inputs(C17_Case)
\* a Tever with backers after a rotation that changed their number
C17_Witness ==
    /\ Has(tevers, "R3") /\ tevers["R3"].sn = 1
    /\ tevers["R3"].baks # <<>>
    /\ Len(tevers["R3"].baks) # Len(cfg.b0)

\* The fields of a notice C18 compares
C18_Fields(ksn) ==
    <<ksn.i, ksn.ii, ksn.s, ksn.d, ksn.et, ksn.bt, ksn.b, ksn.br, ksn.ba,
      ksn.c, ksn.a>>
\* C18 for the Tever tv: its notice reloads, and the notice of the
\* reloaded Tever has the same fields
C18_Tever(tv) ==
    LET n == TeverState(store, tv)
        r == reload(store, n.ksn, tv.local)
    IN n.ok =>
        /\ r.out = "ok"
        /\ TeverState(store, r.tever).ok
        /\ C18_Fields(TeverState(store, r.tever).ksn) = C18_Fields(n.ksn)
\* C18: state(reload(state(t))) equals state(t) in registry prefix, issuer
\* prefix, sn, digest, last ilk, toad, baks, cuts, adds, config and anchor.
C18_StateRoundTrip == \A r \in DOMAIN tevers : C18_Tever(tevers[r])

\* C19 for one call
C19_Case(e, a, sigs) ==
    LET c == processEvent(store, e, a, sigs) IN
    e.t = "vcp" /\ Has(tevers, e.i) =>
        c.out = "LikelyDuplicitousError" /\ c.st = store
\* C19: once a registry is in tevers every further vcp with its registry
\* key raises likely duplicitous and alters no state: tel, states, escrows,
\* cues and the cached Tever stay as they were.
C19_SecondInception == Inputs(C19_Case)
\* R1 is cached with a credential issued, and both inceptions naming R1
\* can be submitted
C19_Witness ==
    /\ Has(tevers, "R1") /\ Has(tel, <<V1Log, 0>>)
    /\ {vcp1, vcp1x} \subseteq EventsOf(cfg.world)

\* The store after some other writer of the registry database has parked
\* e under tae
C20_Parked(e, a, sigs) == escrowALEvent(store, e, a, sigs, <<>>).st
\* C20 for one submission of an event the locality rule excludes: the call
\* raises ValueError with the store untouched, and so does its retry by
\* the drain, which then drops the tae entry
C20_Case(e, a, sigs) ==
    LET c == processEvent(store, e, a, sigs)
        d == drainOne(C20_Parked(e, a, sigs), C20_Parked(e, a, sigs).tae,
                      <<e.i, e.s>>)
    IN
    ~LocalityOk(registryKey(e)) =>
        /\ c.out = "ValueError" /\ c.st = store
        /\ processEvent(C20_Parked(e, a, sigs), e, a, sigs).out = "ValueError"
        /\ d = [C20_Parked(e, a, sigs) EXCEPT !.tae = DelVal(@, <<e.i, e.s>>)]
\* No event the locality rule excludes is first-seen, escrowed or stored
C20_Kept ==
    /\ \A k \in DOMAIN tvt : LocalityOk(registryKey(tvt[k]))
    /\ \A k \in DOMAIN tel : \E g \in DOMAIN tvt :
          g[2] = tel[k] /\ LocalityOk(registryKey(tvt[g]))
    /\ \A k \in DOMAIN tae : Has(tvt, <<k[1], tae[k]>>)
    /\ \A k \in DOMAIN twe : Has(tvt, <<k[1], twe[k]>>)
    /\ \A k \in DOMAIN oot : Has(tvt, <<k[1], oot[k]>>)
    /\ \A r \in DOMAIN tevers : LocalityOk(r)
\* C20: a Tevery with an own regk and local = true never first-sees or
\* escrows an event of another registry, and with local = false never one
\* of its own registry; such an event is rejected with ValueError before
\* any store write, also when the escrow drain submits it again.
C20_LocalityGate == C20_Kept /\ Inputs(C20_Case)
\* a local Tevery has first-seen a credential event of its own registry
\* while events of the other registry can be submitted
C20_Witness ==
    /\ cfg.local /\ cfg.regk = "R1"
    /\ Has(tel, <<V1Log, 0>>)
    /\ SomeInput(LAMBDA e, a, sigs : ~LocalityOk(registryKey(e)))
\* a non-local Tevery has first-seen an event of another registry
C20_WitnessNonLocal ==
    /\ ~cfg.local /\ cfg.regk = "R1"
    /\ Has(tevers, "R2")

\* The toad and backer list recorded in the store for the management
\* event named by the ra seal of e
RaToad(e) == tvt[<<e.ra.i, e.ra.d>>].bt
RaBaks(e) ==
    IF Has(bak, <<e.ra.i, e.ra.d>>) THEN bak[<<e.ra.i, e.ra.d>>] ELSE <<>>
\* The case of C21: an anchored bis or brv in sequence for a cached backer
\* registry, whose ra names a stored management event
C21_Pre(e, a) ==
    /\ e.t \in {"bis", "brv"}
    /\ Has(tevers, e.ra.i) /\ ~tevers[e.ra.i].noBackers
    /\ e.s = expectedSn(store, tevers[e.ra.i], e)
    /\ e.t = "brv" => revokePrior(store, nsKey(e.ra.i, e.i), e.s, e) = "ok"
    /\ Anchored(e, a)
    /\ Has(tvt, <<e.ra.i, e.ra.d>>)
\* C21 for one call: the signatures are counted against the recorded list
\* of the event named by ra, which for a first-seen event is its own list
C21_Case(e, a, sigs) ==
    LET c == processEvent(store, e, a, sigs) IN
    C21_Pre(e, a) =>
        /\ c.out = "ok" <=>
              \/ RaBaks(e) = <<>>
              \/ Cardinality(sigs \cap Range(RaBaks(e))) >= RaToad(e)
        /\ c.out \in {"ok", "MissingWitnessSignatureError"}
        /\ e.ra.d \in Range(tel) => RaBaks(e) = MgmtBaks(e.ra.d)
\* A bis or brv whose ra names another registry than the Tever's is
\* rejected by the Tever with nothing written
C21_OtherRegistry(e, a, sigs) ==
    e.t \in {"bis", "brv"} =>
        \A r \in DOMAIN tevers :
            LET u == TeverUpdate(store, tevers[r],
                                 [e EXCEPT !.ra.i = "R1"], a, sigs)
            IN u.out = "ValidationError" /\ u.st = store
\* C21: the toad and backer list a bis or brv is checked against are those
\* recorded for the management event its ra seal names, not those of the
\* registry's latest event: after a rotation a bis whose ra names the vcp
\* is checked against the toad and backers of the vcp; an ra.i that is not
\* the registry is rejected.
C21_BackersOfRa == Inputs(C21_Case) /\ Inputs(C21_OtherRegistry)
\* after the rotation the bis that names the inception is accepted with
\* the signatures of the inception's backers B1 and B2, of which B2 has
\* been cut
C21_Witness ==
    /\ Has(tevers, "R2") /\ tevers["R2"].baks = <<"B1", "B3">>
    /\ ~Has(tel, <<nsKey("R2", "V2"), 0>>)
    /\ \E a \in AnchorChoices(bis2) :
          /\ C21_Pre(bis2, a)
          /\ processEvent(store, bis2, a, {"B1", "B2"}).out = "ok"

\* The credential logs: the tel keys that are not those of a registry
CredKeys == {k \in DOMAIN tel : k[1] \notin DOMAIN tevers}
\* C22 for one call: once a revocation of the credential is first-seen no
\* event for the credential is accepted
C22_Case(e, a, sigs) ==
    LET c == processEvent(store, e, a, sigs) IN
    /\ e.t \in {"iss", "bis", "rev", "brv"}
    /\ Has(tel, <<LogKey(e), 1>>)
    => c.out # "ok"
\* C22: revocation is terminal: a credential's log holds at most an
\* issuance at sn 0 and a revocation at sn 1, no event for a credential is
\* accepted once its revocation is first-seen, and no credential event
\* with sn above 1 is ever first-seen.
C22_RevocationTerminal ==
    /\ \A k \in CredKeys : k[2] <= 1
    /\ Inputs(C22_Case)

\* The first-seen sns of credential v in the registry r, and the digest
\* logged last
C23_Sns(r, v) == {k[2] : k \in {m \in DOMAIN tel : m[1] = nsKey(r, v)}}
C23_Last(r, v) ==
    tel[<<nsKey(r, v), CHOOSE n \in C23_Sns(r, v) :
                           \A m \in C23_Sns(r, v) : m <= n>>]
\* C23 for the credential v of the cached registry r
C23_Cred(r, v) ==
    LET s == vcState(store, tevers[r], v)
        n == Cardinality(C23_Sns(r, v))
    IN
    IF n = 0
    THEN vcSn(store, tevers[r], v) = -1 /\ ~s.found
    ELSE /\ vcSn(store, tevers[r], v) = n - 1
         /\ s.found /\ s.ok
         /\ s.ksn.s = n - 1
         /\ s.ksn.d = C23_Last(r, v)
         /\ s.ksn.et = IF n = 1
                       THEN (IF tevers[r].noBackers THEN "iss" ELSE "bis")
                       ELSE (IF tevers[r].noBackers THEN "rev" ELSE "brv")
         /\ s.ksn.et = tvt[<<nsKey(r, v), C23_Last(r, v)>>].t
\* C23: vcSn and vcState of a credential are None when it has no
\* first-seen event; otherwise vcSn is the number of first-seen events
\* less one and vcState reports that sn, the digest of the last first-seen
\* event and the issuance kind of the registry's mode when one event is
\* logged, the revocation kind otherwise, which is the ilk of the last
\* first-seen event.
C23_CredentialState ==
    \A r \in DOMAIN tevers : \A v \in Creds : C23_Cred(r, v)
\* V1 is revoked with sn 1
C23_Witness ==
    /\ Has(tevers, "R1")
    /\ Has(tel, <<V1Log, 1>>) /\ tel[<<V1Log, 1>>] = "Drev1"
    /\ vcState(store, tevers["R1"], "V1").ksn.et = "rev"
    /\ vcSn(store, tevers["R1"], "V1") = 1
\* a backer registry has issued V2 and reports bis
C23_WitnessIssued ==
    /\ Has(tevers, "R2")
    /\ vcState(store, tevers["R2"], "V2").found
    /\ vcState(store, tevers["R2"], "V2").ksn.et = "bis"

\* C24: the fields of a Tever change only once the store writes of the
\* event are done: at every step of the processing of an accepted vrt the
\* event the Tever holds as its latest, at the Tever's sn, is in the
\* first-seen log, so the sn in memory is never ahead of the log.
C24_FieldsAfterLog ==
    \A r \in DOMAIN tevers :
        /\ Has(tel, <<r, tevers[r].sn>>)
        /\ tel[<<r, tevers[r].sn>>] = tevers[r].serder.dig

IsPrefix(s, t) == Len(s) <= Len(t) /\ SubSeq(t, 1, Len(s)) = s

\* C25: the cue queue is append-only: every step of processEvent,
\* processEscrows and processQuery leaves the earlier queue as a prefix of
\* the later one, and every cue in the queue is a query or a replay (a
\* receipt is never cued).
C25_CuesAppendOnly ==
    [][/\ IsPrefix(cues, cues')
       /\ \A j \in DOMAIN cues' : cues'[j].kin \in {"query", "replay"}]_vars
C25_Witness ==
    \E j \in DOMAIN cues : \E k \in DOMAIN cues :
        j < k /\ cues[j].kin = "query" /\ cues[k].kin = "replay"

\* The first-seen events of the log pre, by sn from 0
C26_Log(pre) ==
    [j \in 1..Cardinality({k \in DOMAIN tel : k[1] = pre}) |->
        tvt[<<pre, tel[<<pre, j - 1>>]>>]]
C26_Msgs(ri, vcpre) == C26_Log(ri) \o C26_Log(nsKey(ri, vcpre))
C26_Queries(P(_, _, _, _)) ==
    \A route \in Routes : \A ri \in Registries : \A vcpre \in Creds :
        \A source \in Sources : P(route, ri, vcpre, source)
C26_Cued(route, ri, vcpre, source) ==
    processQuery(store, route, ri, vcpre, source) =
        IF route = "tels"
        THEN [st |-> [store EXCEPT !.cues = Append(@,
                         ReplayCue(source, C26_Msgs(ri, vcpre)))],
              out |-> "ok"]
        ELSE [st |-> store, out |-> "ValidationError"]
C26_CuedIfAny(route, ri, vcpre, source) ==
    processQuery(store, route, ri, vcpre, source) =
        IF route = "tels" /\ C26_Msgs(ri, vcpre) # <<>>
        THEN [st |-> [store EXCEPT !.cues = Append(@,
                         ReplayCue(source, C26_Msgs(ri, vcpre)))],
              out |-> "ok"]
        ELSE IF route = "tels" THEN [st |-> store, out |-> "ok"]
        ELSE [st |-> store, out |-> "ValidationError"]

C27_Held == pc.a.sn \in 1..pc.kel
C27_Seals == IF pc.a.sn \in DOMAIN KelSealsVA THEN KelSealsVA[pc.a.sn] ELSE <<>>
C27_Sealed ==
    /\ C27_Held
    /\ pc.a.dig = KelDig(pc.a.sn)
    /\ Len(C27_Seals) = 1
    /\ C27_Seals[1] = [i |-> pc.e.i, s |-> pc.e.s, d |-> pc.e.dig]

\* C27: verifyAnchor returns true exactly when the issuer's KEL has an
\* event at the couple's sn, the digest of that event is the couple's, the
\* event holds exactly one seal and the seal's i, s and d are the TEL
\* event's identifier, sn and digest; in every other case it returns false.
C27_VerifyAnchorExact ==
    pc.at = "verified" =>
        pc.out = (IF C27_Sealed THEN "True" ELSE "False")
\* What holds of the code: as C27 where every seal looked at has i, s and d
C27_ExactOnEventSeals ==
    (pc.at = "verified" /\ pc.out # "KeyError") =>
        pc.out = (IF C27_Sealed THEN "True" ELSE "False")
C27_Raised ==
    /\ pc.at = "verified" /\ pc.out = "KeyError"
    /\ C27_Held /\ pc.a.dig = KelDig(pc.a.sn)
    /\ C27_Seals = <<[d |-> "Diss1"]>>

C28_Kinds == {"vcp", "vrt", "iss", "rev", "bis", "brv"}
C28_Bad(e) ==
    \/ e.t \in {"vcp", "iss", "bis"} /\ e.s # 0
    \/ e.t \in {"vrt", "rev", "brv"} /\ e.s = 0
    \/ e.t \notin C28_Kinds
\* C28 for one call
C28_Case(e, a, sigs) ==
    LET c == processEvent(store, e, a, sigs) IN
    C28_Bad(e) => c.out = "ValidationError" /\ c.st = store
\* C28: processEvent rejects, with the store as it was, every vcp, iss or
\* bis whose sn is not 0, every vrt, rev or brv whose sn is 0, and every
\* event of another kind.
C28_SnKindAgree == Inputs(C28_Case)
\* R1 is cached with V1 issued, and events of each of the three sorts can
\* be submitted
C28_Witness ==
    /\ Has(tevers, "R1") /\ Has(tel, <<V1Log, 0>>)
    /\ {iss1s, rev1z, ixn1} \subseteq EventsOf(cfg.world)
    /\ C28_Bad(iss1s) /\ C28_Bad(rev1z) /\ C28_Bad(ixn1)

\* C29: the constructor rotate and Tever.rotate agree: for every prior
\* backer list, cuts, adds and threshold the constructor returns an event
\* exactly when Tever.rotate accepts the vrt of those cuts, adds and
\* threshold against a Tever with that backer list, and then both have the
\* same new backer list.
C29_RotateAgree ==
    pc.at = "rotated" =>
        /\ pc.made.ok = pc.got.ok
        /\ pc.made.ok => pc.made.baks = pc.got.baks
\* Both accepted a rotation with a cut and an add; both refused one
C29_Witness ==
    /\ pc.at = "rotated" /\ pc.made.ok /\ pc.got.ok
    /\ pc.cuts # <<>> /\ pc.adds # <<>> /\ pc.got.baks # pc.baks
C29_WitnessRefused ==
    /\ pc.at = "rotated" /\ ~pc.made.ok /\ ~pc.got.ok
    /\ ~NoDups(pc.baks)

\* The messages of dest at the ordinals fn, fn + 1, ..., each with its
\* ordinal, read off the tables
C30_From(mb, dest, fn) ==
    LET n == cntFels(mb, dest) IN
    [j \in 1..(IF fn <= n THEN n - fn ELSE 0) |->
        <<fn + j - 1, mb.msgs[mb.fels[<<dest, fn + j - 1>>]]>>]
\* A store puts its message at the next ordinal of its destination and
\* leaves every message stored before where it was
C30_Stored ==
    pc'.at = "stored" =>
        /\ C30_From(mbx', pc'.dest, 0) =
               Append(C30_From(mbx, pc'.dest, 0),
                      <<cntFels(mbx, pc'.dest), pc'.msg>>)
        /\ \A d \in Dests \ {pc'.dest} :
               C30_From(mbx', d, 0) = C30_From(mbx, d, 0)
\* A clone from fn gives the messages at the ordinals fn .. N - 1
C30_Cloned ==
    pc'.at = "cloned" =>
        /\ pc'.out = C30_From(mbx, pc'.dest, pc'.fn)
        /\ Len(pc'.out) = (IF pc'.fn <= cntFels(mbx, pc'.dest)
                           THEN cntFels(mbx, pc'.dest) - pc'.fn ELSE 0)
        /\ \A j \in DOMAIN pc'.out : pc'.out[j][1] = pc'.fn + j - 1

\* C30: after N messages are stored for a destination, cloning its
\* messages from the ordinal fn gives the messages stored at the ordinals
\* fn .. N - 1, each with its ordinal, in the order they were stored: all
\* N from 0, none from N, N - k from k.
C30_MailboxReplay == [][C30_Stored /\ C30_Cloned]_vars
\* Three messages are stored for E1, the second and the third alike, and a
\* clone from ordinal 1 gave those two
C30_Witness ==
    /\ pc.at = "cloned" /\ pc.dest = "E1" /\ pc.fn = 1
    /\ cntFels(mbx, "E1") = 3
    /\ pc.out = << <<1, "m1">>, <<2, "m1">> >>

\* The case of C31: e goes through every check that precedes valAnchorBigs
\* on a verifier with local = false
C31_Reaches(e) ==
    /\ ~cfg.local
    /\ e.t \in {"vcp", "vrt", "bis", "brv"}
    /\ e.t = "vcp" =>
          /\ ~Has(tevers, e.i) /\ e.pfx /\ e.s = 0
          /\ NoDups(e.b) /\ toadOk(e.bt, e.b)
    /\ e.t # "vcp" =>
          /\ Has(tevers, registryKey(e))
          /\ ~tevers[registryKey(e)].noBackers
          /\ e.s = expectedSn(store, tevers[registryKey(e)], e)
    /\ e.t = "vrt" => TeverRotate(tevers[e.i], e, e.s).ok
    /\ e.t \in {"bis", "brv"} =>
          getBackerState(store, tevers[registryKey(e)], e).out = "ok"
    /\ e.t = "brv" => revokePrior(store, LogKey(e), e.s, e) = "ok"
\* sigs holds fewer valid signatures than the threshold e is held to
C31_Short(e, sigs) ==
    Cardinality(verifySigs(sigs, GovBaks(e))) < GovToad(e)
\* C31 for one call: unanchored and short of signatures
C31_Call(e, a, sigs) ==
    LET c == processEvent(store, e, a, sigs) IN
    C31_Reaches(e) /\ ~Anchored(e, a) /\ C31_Short(e, sigs) =>
        /\ c.out = "MissingAnchorError"
        /\ c.st.tae = PutVal(tae, <<e.i, e.s>>, e.dig)
        /\ c.st.twe = twe
\* C31 for the tae entry at k: anchored by now, still short of signatures
C31_Retry(k) ==
    LET r == drainOne(store, tae, k) IN
    /\ Has(tvt, <<k[1], tae[k]>>) /\ Has(anc, <<k[1], tae[k]>>)
    /\ C31_Reaches(TaeEvt(k))
    /\ Anchored(TaeEvt(k), TaeAnc(k))
    /\ C31_Short(TaeEvt(k), TaeSigs(k))
    => /\ r.twe = PutVal(twe, k, tae[k])
       /\ ~Has(r.tae, k)
       /\ r.tel = tel
\* C31: valAnchorBigs checks the anchor before the backer threshold: an
\* event that is unanchored and short of toad valid backer signatures
\* raises missing anchor and is parked under tae only, with no twe entry;
\* when its anchor has arrived and the anchorless drain retries it still
\* short of signatures, it is recorded under twe and removed from tae.
C31_AnchorBeforeThreshold ==
    Inputs(C31_Call) /\ \A k \in DOMAIN tae : C31_Retry(k)
\* a rotation parked in tae alone with one signature of the two it needs,
\* whose anchor has arrived: the retry moves it to twe
C31_Witness ==
    \E k \in DOMAIN tae :
        /\ TaeEvt(k).t = "vrt" /\ ~Has(twe, k)
        /\ C31_Reaches(TaeEvt(k))
        /\ Anchored(TaeEvt(k), TaeAnc(k))
        /\ C31_Short(TaeEvt(k), TaeSigs(k))
        /\ Has(drainOne(store, tae, k).twe, k)
        /\ ~Has(drainOne(store, tae, k).tae, k)
\* The same for the events whose backer list, as the verifier reads it, is
\* not empty
C31_CallHeld(e, a, sigs) ==
    C31_Reaches(e) /\ GovBaks(e) # <<>> => C31_Call(e, a, sigs)
C31_RetryHeld(k) ==
    /\ Has(tvt, <<k[1], tae[k]>>) /\ Has(anc, <<k[1], tae[k]>>)
    /\ C31_Reaches(TaeEvt(k))
    /\ GovBaks(TaeEvt(k)) # <<>>
    => C31_Retry(k)
C31_AnchorBeforeHeldThreshold ==
    Inputs(C31_CallHeld) /\ \A k \in DOMAIN tae : C31_RetryHeld(k)

\* A step that is a second logEvent call with the arguments of the call
\* before it, or a tick of the clock after a call
C32_SameCall == pc.at = "logged" /\ pc' = pc
\* The tables of logEvent but tets are left as the first call left them
C32_IdempotentButStamp ==
    [][C32_SameCall =>
          <<anc, tib, bak, tvt, tel>>' = <<anc, tib, bak, tvt, tel>>]_vars
\* C32: logEvent is idempotent: a second call with the same arguments
\* leaves anc, tib, bak, tets, tvt and tel as the first call left them, the
\* first-seen timestamp of the event included.
C32_LogEventIdempotent ==
    [][C32_SameCall =>
          <<anc, tib, bak, tets, tvt, tel>>'
              = <<anc, tib, bak, tets, tvt, tel>>]_vars

\* The fields of a Tever that C33 names
C33_Fields(tv) == <<tv.sn, tv.serder, tv.toad, tv.baks, tv.cuts, tv.adds>>
\* C33 for one call
C33_Case(e, a, sigs) ==
    LET c == processEvent(store, e, a, sigs) IN
    c.out # "ok" =>
        /\ c.out \in Outcomes
        /\ c.st.tel = tel /\ c.st.tets = tets /\ c.st.states = states
        /\ DOMAIN c.st.tevers = DOMAIN tevers
        /\ \A r \in DOMAIN tevers :
               C33_Fields(c.st.tevers[r]) = C33_Fields(tevers[r])
        /\ \A k \in DOMAIN tvt : Has(c.st.tvt, k) /\ c.st.tvt[k] = tvt[k]
        /\ \A k \in DOMAIN anc : Has(c.st.anc, k) /\ c.st.anc[k] = anc[k]
\* C33: a processEvent call that raises leaves tel, tets, states, the set
\* of registries in the Tever cache and every cached Tever's sn, serder,
\* toad, baks, cuts and adds as they were; only the escrow tables, the
\* escrow copies in tvt, anc, tib and bak and the cue queue may differ.
C33_FailureKeepsAccepted == Inputs(C33_Case)
\* A call that raises and writes an escrow
C33_Escrows(e, a, sigs) ==
    LET c == processEvent(store, e, a, sigs) IN
    /\ c.out \in {"MissingWitnessSignatureError", "MissingAnchorError",
                  "OutOfOrderError"}
    /\ <<c.st.tae, c.st.twe, c.st.oot>> # <<tae, twe, oot>>
\* A call that raises on a duplicate
C33_Refuses(e, a, sigs) ==
    processEvent(store, e, a, sigs).out = "LikelyDuplicitousError"
\* with a registry in the cache, one call raises and escrows its event and
\* another raises on an event already first-seen
C33_Witness ==
    /\ tevers # NoTbl /\ tel # NoTbl
    /\ SomeInput(C33_Escrows) /\ SomeInput(C33_Refuses)

\* The table tbl2 is tbl but for the entry at key
C34_But(tbl2, tbl, key) ==
    /\ DOMAIN tbl \subseteq DOMAIN tbl2 /\ DOMAIN tbl2 \subseteq DOMAIN tbl \cup {key}
    /\ \A k \in DOMAIN tbl \ {key} : tbl2[k] = tbl[k]
\* C34 for one call
C34_Case(e, a, sigs) ==
    LET c == processEvent(store, e, a, sigs)
        key == <<LogKey(e), e.dig>>
    IN
    e.t \in {"iss", "rev", "bis", "brv"} /\ c.out = "ok" =>
        /\ c.st.tevers = tevers
        /\ c.st.states = states
        /\ \A k \in DOMAIN tel : Has(c.st.tel, k) /\ c.st.tel[k] = tel[k]
        /\ DOMAIN c.st.tel = DOMAIN tel \cup {<<LogKey(e), e.s>>}
        /\ LogKey(e) # registryKey(e)
        /\ c.st.tel[<<LogKey(e), e.s>>] = e.dig
        /\ C34_But(c.st.tvt, tvt, key) /\ C34_But(c.st.anc, anc, key)
        /\ C34_But(c.st.tib, tib, key) /\ C34_But(c.st.tets, tets, key)
        /\ c.st.bak = bak
        /\ <<c.st.tae, c.st.twe, c.st.oot, c.st.cues>> = <<tae, twe, oot, cues>>
\* C34: accepting an iss, rev, bis or brv leaves the Tever's sn, serder,
\* ilk, toad, baks, cuts and adds, the persisted snapshot states[regk] and
\* the management log of the registry unchanged; only the credential's own
\* log and its anchor and signature records change.
C34_CredentialFrame == Inputs(C34_Case)
\* An issuance and a revocation that a call accepts
C34_Issues(e, a, sigs) ==
    e.t \in {"iss", "bis"} /\ processEvent(store, e, a, sigs).out = "ok"
C34_Revokes(e, a, sigs) ==
    e.t \in {"rev", "brv"} /\ processEvent(store, e, a, sigs).out = "ok"
\* a backerless issuance is accepted in one state, a backed revocation in
\* another
C34_Witness == SomeInput(C34_Issues) /\ cfg.world = "NB"
C34_WitnessBacked == SomeInput(C34_Revokes) /\ cfg.world = "BR"

\* C35 for the registry r of the cache
C35_Tracks(r) ==
    /\ Has(states, r)
    /\ states[r].s = tevers[r].sn
    /\ states[r].d = tevers[r].serder.dig
    /\ states[r].bt = tevers[r].toad
    /\ states[r].b = tevers[r].baks
    /\ states[r].br = tevers[r].cuts
    /\ states[r].ba = tevers[r].adds
    /\ Has(tel, <<r, tevers[r].sn>>)
    /\ tel[<<r, tevers[r].sn>>] = states[r].d
    /\ \A k \in DOMAIN tel : k[1] = r => k[2] <= states[r].s
\* C35: after every completed processEvent or processEscrows call, for
\* every registry R of the Tever cache, states[R] has the sn, digest, toad,
\* backer list, cuts and adds of the cached Tever, and that sn and digest
\* are those of the highest first-seen management event of R.
C35_SnapshotTracksLog == \A r \in DOMAIN tevers : C35_Tracks(r)
\* the backer registry has been rotated and its snapshot shows the rotation
C35_Witness ==
    /\ Has(tevers, "R2") /\ tevers["R2"].sn = 1
    /\ states["R2"].s = 1 /\ states["R2"].d = "Dvrt2"
    /\ states["R2"].b = <<"B1", "B3">>
    /\ states["R2"].br = <<"B2">> /\ states["R2"].ba = <<"B3">>

\* The keys of the management logs and of the credential logs
C36_Regs == {"R1", "R2", "R3"}
C36_Sns(pre) == {k[2] : k \in {m \in DOMAIN tel : m[1] = pre}}
\* C36: the sns with a tel entry of a registry's management log are exactly
\* 0..tever.sn, the sns with a tel entry of a credential log are an initial
\* segment from 0, and a credential log has entries only if the vcp of its
\* registry is first-seen at sn 0.
C36_NoGapsNoOrphans ==
    /\ \A k \in DOMAIN tel :
           \/ k[1] \in C36_Regs
           \/ \E r \in C36_Regs : \E v \in Creds : k[1] = nsKey(r, v)
    /\ \A r \in C36_Regs :
           C36_Sns(r) = IF Has(tevers, r) THEN 0..tevers[r].sn ELSE {}
    /\ \A r \in C36_Regs : \A v \in Creds :
           /\ C36_Sns(nsKey(r, v)) = 0..(Cardinality(C36_Sns(nsKey(r, v))) - 1)
           /\ C36_Sns(nsKey(r, v)) # {} =>
                 /\ Has(tel, <<r, 0>>)
                 /\ Has(tvt, <<r, tel[<<r, 0>>]>>)
                 /\ tvt[<<r, tel[<<r, 0>>]>>].t = "vcp"
\* the management log of R2 holds sn 0 and 1 and the log of its credential
\* holds sn 0
C36_Witness ==
    /\ C36_Sns("R2") = {0, 1}
    /\ C36_Sns(nsKey("R2", "V2")) = {0}

\* The events first seen, with the key of their log
C37_FirstSeen == {k \in DOMAIN tel : Has(tvt, <<k[1], tel[k]>>)}
\* C37: for every first-seen bis or brv, the management event named by its
\* ra seal is itself first-seen in the management log of the registry, at
\* sn ra.s with digest ra.d; a management event that was only escrowed does
\* not govern an accepted credential event.
C37_GovernedByAccepted ==
    \A k \in C37_FirstSeen :
        LET e == tvt[<<k[1], tel[k]>>] IN
        e.t \in {"bis", "brv"} =>
            /\ Has(tel, <<e.ra.i, e.ra.s>>)
            /\ tel[<<e.ra.i, e.ra.s>>] = e.ra.d
\* The same at the moment of acceptance, for one call
C37_Case(e, a, sigs) ==
    e.t \in {"bis", "brv"} /\ processEvent(store, e, a, sigs).out = "ok" =>
        /\ Has(tel, <<e.ra.i, e.ra.s>>)
        /\ tel[<<e.ra.i, e.ra.s>>] = e.ra.d
C37_AcceptedUnderAccepted == Inputs(C37_Case)

\* C38: for every first-seen event the couple recorded under anc for it
\* names a KEL event whose one seal is that of the event, and the anchor a
\* of the state notice of a registry does so for its latest management
\* event, also when the event was parked before with another couple.
C38_StoredAnchorVerifies ==
    /\ \A k \in C37_FirstSeen :
           /\ Has(anc, <<k[1], tel[k]>>)
           /\ Anchored(tvt[<<k[1], tel[k]>>], anc[<<k[1], tel[k]>>])
    /\ \A r \in DOMAIN states :
           Anchored(tevers[r].serder,
                    [sn |-> states[r].a.s, dig |-> states[r].a.d])
\* The same for the events never parked with a couple other than the one
\* they were accepted with: the couple a call accepts is the one in anc
C38_Case(e, a, sigs) ==
    LET c == processEvent(store, e, a, sigs) IN
    c.out = "ok" /\ ~Has(anc, <<LogKey(e), e.dig>>) =>
        /\ c.st.anc[<<LogKey(e), e.dig>>] = a
        /\ Anchored(e, a)
C38_FreshAnchorStored == Inputs(C38_Case)

\* The parts of C39 on oot and on twe
C39_OotLeaves == \A k \in DOMAIN oot : oot[k] \notin Range(tel)
C39_TweLeaves == \A k \in DOMAIN twe : twe[k] \notin Range(tel)
\* C39: an event parked under oot or twe leaves the escrow once it is
\* first-seen or rejected for good: in every state no digest is both
\* first-seen in tel and parked under oot or twe.
C39_ResolvedLeavesEscrow == C39_OotLeaves /\ C39_TweLeaves
\* No step removes an entry of oot or twe
C39_NeverRemoved ==
    [][/\ \A k \in DOMAIN oot : Has(oot', k) /\ oot'[k] = oot[k]
       /\ \A k \in DOMAIN twe : Has(twe', k) /\ twe'[k] = twe[k]]_vars

\* The inception of R1 and the issuance of V1 are both parked in tae
C40_Parked ==
    /\ Has(tae, <<"R1", 0>>) /\ tae[<<"R1", 0>>] = "Dvcp1"
    /\ Has(tae, <<"V1", 0>>) /\ tae[<<"V1", 0>>] = "Diss1"
\* The KEL events named by the couples stored for the two have arrived
C40_Arrived ==
    /\ Anchored(TaeEvt(<<"R1", 0>>), TaeAnc(<<"R1", 0>>))
    /\ Anchored(TaeEvt(<<"V1", 0>>), TaeAnc(<<"V1", 0>>))
C40_Both ==
    /\ Has(tel, <<"R1", 0>>) /\ tel[<<"R1", 0>>] = "Dvcp1"
    /\ Has(tel, <<V1Log, 0>>) /\ tel[<<V1Log, 0>>] = "Diss1"
\* C40: if the vcp of a registry and the iss of a credential under it are
\* both parked in tae and both of their anchoring KEL events have arrived,
\* repeated processEscrows calls eventually make both first-seen,
\* whichever of the two entries the drain visits first.
C40_RecoveryAnyOrder == (C40_Parked /\ C40_Arrived) ~> C40_Both
\* both are parked and anchored, the issuance is not yet first-seen, and
\* the drain visits the entry of the credential first
C40_Witness ==
    /\ C40_Parked /\ C40_Arrived /\ cfg.vfirst
    /\ ~Has(tel, <<V1Log, 0>>)
    /\ Has(processEscrows(store).tel, <<V1Log, 0>>)
\* the same where the drain visits the entry of the registry first
C40_WitnessRegistryFirst ==
    /\ C40_Parked /\ C40_Arrived /\ ~cfg.vfirst
    /\ ~Has(tel, <<V1Log, 0>>)
    /\ Has(processEscrows(store).tel, <<V1Log, 0>>)
\* both are parked while the inception is not first-seen
C40_ParkedUnaccepted == C40_Parked /\ ~Has(tel, <<"R1", 0>>)
====
